---- MODULE Spec2Model ----
(***************************************************************************)
(* Tic-tac-toe LLM tournament: the game (game.ts), the move protocol       *)
(* (ai-player.ts), the match runner and the tournament loop                *)
(* (tournament.ts) and the logger (logger.ts).                             *)
(*                                                                         *)
(* Text is modelled as a sequence of fragments (strings): a reply of the   *)
(* model is a sequence of one-character fragments, a diagnostic such as    *)
(* "X: api_error - ..." is the sequence of its words.  String.includes is  *)
(* containment of a fragment.  An optional field is <<>> when absent and   *)
(* <<v>> when present, except invalidReason, whose absent value and empty  *)
(* string are both falsy in the source and are both the empty sequence.    *)
(***************************************************************************)
EXTENDS Integers, Sequences, FiniteSets, TLC

\* ------------------------------------------------------------------ bounds
NumRounds == 2
MaxFaults == 3
SpreadFaults == 1
DeepFaults == 1
DeepWidth == 2
MaxParts == 4
MaxModels == 3
MaxLog == 4

\* ------------------------------------------------------- program constants
BaseBackoff == 1000
BoardSize == 3

\* ------------------------------------------------------------ small helpers
None == <<>>
Some(v) == <<v>>

Min(S) == CHOOSE x \in S : \A y \in S : x <= y
Max(S) == CHOOSE x \in S : \A y \in S : x >= y

Range(s) == {s[i] : i \in DOMAIN s}

\* String.prototype.includes at the granularity of fragments
Includes(text, fragment) == \E i \in DOMAIN text : text[i] = fragment

\* ------------------------------------------------------------ types.ts
Players == {"X", "O"}
Empty == "null"
InvalidMoveTypes ==
  <<"blank", "invalid_syntax", "outside_board", "occupied_cell", "negative_coordinates">>

\* ------------------------------------------------------------ game.ts
Idx == 0 .. (BoardSize - 1)

createEmptyBoard == [r \in Idx |-> [c \in Idx |-> Empty]]

NewGame == [board |-> createEmptyBoard, currentPlayer |-> "X", moves |-> <<>>]

\* faulty variant of isValidMove: a cell on the board is valid, taken or not
isValidMoveAnyCell(g, row, col) ==
  IF row < 0 \/ row > 2 \/ col < 0 \/ col > 2
  THEN FALSE
  ELSE TRUE

isValidMove(g, row, col) ==
  IF row < 0 \/ row > 2 \/ col < 0 \/ col > 2
  THEN FALSE
  ELSE g.board[row][col] = Empty

\* faulty variant of makeMove: the turn stays with the player who moved
makeMoveKeepsTurn(g, row, col) ==
  IF ~isValidMove(g, row, col)
  THEN [ok |-> FALSE, game |-> g]
  ELSE [ok |-> TRUE,
        game |-> [board |-> [g.board EXCEPT ![row][col] = g.currentPlayer],
                  moves |-> Append(g.moves, [player |-> g.currentPlayer, row |-> row, col |-> col]),
                  currentPlayer |-> g.currentPlayer]]

\* faulty variant of makeMove: the rejected move is recorded all the same
makeMoveRecordsRejected(g, row, col) ==
  IF ~isValidMove(g, row, col)
  THEN [ok |-> FALSE,
        game |-> [g EXCEPT !.moves = Append(@, [player |-> g.currentPlayer,
                                                  row |-> row, col |-> col])]]
  ELSE [ok |-> TRUE,
        game |-> [board |-> [g.board EXCEPT ![row][col] = g.currentPlayer],
                  moves |-> Append(g.moves, [player |-> g.currentPlayer, row |-> row, col |-> col]),
                  currentPlayer |-> IF g.currentPlayer = "X" THEN "O" ELSE "X"]]

\* makeMove returns the boolean and leaves the game changed or not
makeMove(g, row, col) ==
  IF ~isValidMove(g, row, col)
  THEN [ok |-> FALSE, game |-> g]
  ELSE [ok |-> TRUE,
        game |-> [board |-> [g.board EXCEPT ![row][col] = g.currentPlayer],
                  moves |-> Append(g.moves, [player |-> g.currentPlayer, row |-> row, col |-> col]),
                  currentPlayer |-> IF g.currentPlayer = "X" THEN "O" ELSE "X"]]

\* faulty variant of checkWinner: the diagonal from the top right is not looked at
checkWinnerOneDiagonal(g) ==
  LET b == g.board
      rows == {r \in Idx : b[r][0] # Empty /\ b[r][0] = b[r][1] /\ b[r][1] = b[r][2]}
      cols == {c \in Idx : b[0][c] # Empty /\ b[0][c] = b[1][c] /\ b[1][c] = b[2][c]}
      isFull == \A r \in Idx : \A c \in Idx : b[r][c] # Empty
  IN  IF rows # {} THEN b[Min(rows)][0]
      ELSE IF cols # {} THEN b[0][Min(cols)]
      ELSE IF b[0][0] # Empty /\ b[0][0] = b[1][1] /\ b[1][1] = b[2][2] THEN b[0][0]
      ELSE IF isFull THEN "draw"
      ELSE Empty

checkWinner(g) ==
  LET b == g.board
      rows == {r \in Idx : b[r][0] # Empty /\ b[r][0] = b[r][1] /\ b[r][1] = b[r][2]}
      cols == {c \in Idx : b[0][c] # Empty /\ b[0][c] = b[1][c] /\ b[1][c] = b[2][c]}
      isFull == \A r \in Idx : \A c \in Idx : b[r][c] # Empty
  IN  IF rows # {} THEN b[Min(rows)][0]
      ELSE IF cols # {} THEN b[0][Min(cols)]
      ELSE IF b[0][0] # Empty /\ b[0][0] = b[1][1] /\ b[1][1] = b[2][2] THEN b[0][0]
      ELSE IF b[0][2] # Empty /\ b[0][2] = b[1][1] /\ b[1][1] = b[2][0] THEN b[0][2]
      ELSE IF isFull THEN "draw"
      ELSE Empty

\* faulty variant of isGameOver: over only when no cell is left
isGameOverWhenFull(g) == \A r, c \in Idx : g.board[r][c] # Empty

isGameOver(g) == checkWinner(g) # Empty

\* reset
reset == [board |-> createEmptyBoard, currentPlayer |-> "X", moves |-> <<>>]

\* ------------------------------------------------------------ ai-player.ts
DigitChars == <<"0", "1", "2", "3", "4", "5", "6", "7", "8", "9">>
Digits == Range(DigitChars)
Whitespace == {" ", "\t", "\n", "\r"}

\* String.prototype.trim
Trim(s) ==
  LET keep == {i \in DOMAIN s : s[i] \notin Whitespace}
  IN  IF keep = {} THEN <<>> ELSE SubSeq(s, Min(keep), Max(keep))

\* faulty variant of LastLine: the whole reply is searched for coordinates
WholeReply(response) == Trim(response)

\* response.trim().split("\n"), last element, trimmed
LastLine(response) ==
  LET t == Trim(response)
      nl == {i \in DOMAIN t : t[i] = "\n"}
      from == IF nl = {} THEN 1 ELSE Max(nl) + 1
  IN  Trim(SubSeq(t, from, Len(t)))

DigitVal(ch) == (CHOOSE d \in DOMAIN DigitChars : DigitChars[d] = ch) - 1

RECURSIVE DigitsValue(_)
DigitsValue(s) ==
  IF s = <<>> THEN 0
  ELSE DigitsValue(SubSeq(s, 1, Len(s) - 1)) * 10 + DigitVal(s[Len(s)])

\* Number.parseInt(text, 10) of a capture of (-?\d+)
parseInt(s) == IF s[1] = "-" THEN 0 - DigitsValue(Tail(s)) ELSE DigitsValue(s)

\* end (exclusive) of the longest run of characters of Class starting at i
RECURSIVE RunEnd(_, _, _)
RunEnd(s, i, Class) ==
  IF i > Len(s) \/ s[i] \notin Class THEN i ELSE RunEnd(s, i + 1, Class)

\* The regular expressions of parseMove are matched element by element.  Each
\* element takes the position p where it starts (0: the match has failed) and
\* yields the position after it (0: no match).  Every repetition is followed by
\* an element that cannot begin with a character of the repetition, so the
\* greedy match is the only one and no backtracking is lost, \D+ excepted.

\* one character out of chars
Lit(s, p, chars) == IF p >= 1 /\ p <= Len(s) /\ s[p] \in chars THEN p + 1 ELSE 0

\* \s*
SkipSpace(s, p) == IF p = 0 THEN 0 ELSE RunEnd(s, p, Whitespace)

\* \s+
SomeSpace(s, p) == IF p = 0 \/ RunEnd(s, p, Whitespace) = p THEN 0 ELSE RunEnd(s, p, Whitespace)

\* -?
OptMinus(s, p) == IF p >= 1 /\ p <= Len(s) /\ s[p] = "-" THEN p + 1 ELSE p

\* \d+
SomeDigits(s, p) == IF p = 0 \/ RunEnd(s, p, Digits) = p THEN 0 ELSE RunEnd(s, p, Digits)

\* (-?\d+)
IntAt(s, p) == SomeDigits(s, OptMinus(s, p))

\* the two captures: [a, e1) and [q, e2); <<>> when the match failed
Captures(s, a, e1, q, e2) ==
  IF e2 = 0 THEN <<>> ELSE <<SubSeq(s, a, e1 - 1), SubSeq(s, q, e2 - 1)>>

\* col\s* at p: the position where the second capture starts
ColAt(s, p) == SkipSpace(s, Lit(s, Lit(s, Lit(s, p, {"c", "C"}), {"o", "O"}), {"l", "L"}))

\* \D+ is greedy: of the places where col\s*(-?\d+) matches after a run of
\* non-digits, the last one
LabeledPick(s, a, e1, cands) ==
  IF cands = {} THEN <<>>
  ELSE Captures(s, a, e1, ColAt(s, Max(cands)), IntAt(s, ColAt(s, Max(cands))))

LabeledRest(s, a, e1) ==
  LabeledPick(s, a, e1,
              {p \in 1 .. Len(s) :
                 /\ e1 # 0 /\ p > e1
                 /\ \A k \in e1 .. (p - 1) : s[k] \notin Digits
                 /\ IntAt(s, ColAt(s, p)) # 0})

LabeledFrom(s, a) == LabeledRest(s, a, IntAt(s, a))

\* /row\s*(-?\d+)\D+col\s*(-?\d+)/i anchored at i: the two captures, or <<>>
LabeledAt(s, i) ==
  LabeledFrom(s, SkipSpace(s, Lit(s, Lit(s, Lit(s, i, {"r", "R"}), {"o", "O"}), {"w", "W"})))

\* \s*,\s*(-?\d+) after the first capture [a, e1)
CommaSecond(s, a, e1, q) == Captures(s, a, e1, q, IntAt(s, q))

CommaRest(s, a, e1) == CommaSecond(s, a, e1, SkipSpace(s, Lit(s, SkipSpace(s, e1), {","})))

\* /(-?\d+)\s*,\s*(-?\d+)/ anchored at i
CommaAt(s, i) == CommaRest(s, i, IntAt(s, i))

ParenClose(s, a, e1, q, e2) ==
  IF Lit(s, e2, {")"}) = 0 THEN <<>> ELSE Captures(s, a, e1, q, e2)

ParenSecond(s, a, e1, q) == ParenClose(s, a, e1, q, IntAt(s, q))

ParenRest(s, a, e1) == ParenSecond(s, a, e1, SkipSpace(s, Lit(s, SkipSpace(s, e1), {","})))

\* /\((-?\d+)\s*,\s*(-?\d+)\)/ anchored at i
ParenAt(s, i) ==
  IF Lit(s, i, {"("}) = 0 THEN <<>> ELSE ParenRest(s, i + 1, IntAt(s, i + 1))

SpaceSecond(s, a, e1, q) == Captures(s, a, e1, q, IntAt(s, q))

SpaceRest(s, a, e1) == SpaceSecond(s, a, e1, SomeSpace(s, e1))

\* /(-?\d+)\s+(-?\d+)/ anchored at i
SpaceAt(s, i) == SpaceRest(s, i, IntAt(s, i))

\* the patterns array of parseMove, in its order
PatternAt(k, s, i) ==
  CASE k = 1 -> LabeledAt(s, i)
    [] k = 2 -> ParenAt(s, i)
    [] k = 3 -> CommaAt(s, i)
    [] k = 4 -> SpaceAt(s, i)

\* lastLine.match(pattern): the captures of the leftmost match from i on, or <<>>
RECURSIVE Match(_, _, _)
MatchOr(k, s, i, m) == IF m # <<>> THEN m ELSE Match(k, s, i + 1)

Match(k, s, i) == IF i > Len(s) THEN <<>> ELSE MatchOr(k, s, i, PatternAt(k, s, i))

\* the loop over the patterns: the captures of the first pattern that matches
RECURSIVE FirstMatch(_, _)

\* faulty variant of FirstMatchOr: a pair off the board lets the later patterns try
FirstMatchOrSkipsRejected(k, s, m) ==
  IF m # <<>> /\ DigitsValue(SelectSeq(m[1], LAMBDA c : c # "-")) <= 2
              /\ DigitsValue(SelectSeq(m[2], LAMBDA c : c # "-")) <= 2
              /\ m[1][1] # "-" /\ m[2][1] # "-"
  THEN m
  ELSE IF FirstMatch(k + 1, s) # <<>> THEN FirstMatch(k + 1, s) ELSE m

FirstMatchOr(k, s, m) == IF m # <<>> THEN m ELSE FirstMatch(k + 1, s)

FirstMatch(k, s) == IF k > 4 THEN <<>> ELSE FirstMatchOr(k, s, Match(k, s, 1))

\* faulty variant of CheckCoordinates: the upper bound is checked before the sign
CheckCoordinatesBoundFirst(row, col) ==
  IF row > 2 \/ col > 2
  THEN [move |-> None, invalidReason |-> <<"outside_board">>]
  ELSE IF row < 0 \/ col < 0
  THEN [move |-> None, invalidReason |-> <<"negative_coordinates">>]
  ELSE [move |-> Some([row |-> row, col |-> col]), invalidReason |-> None]

\* parseMove, the checks on the parsed pair, in the order of the source
CheckCoordinates(row, col) ==
  IF row < 0 \/ col < 0
  THEN [move |-> None, invalidReason |-> <<"negative_coordinates">>]
  ELSE IF row > 2 \/ col > 2
  THEN [move |-> None, invalidReason |-> <<"outside_board">>]
  ELSE [move |-> Some([row |-> row, col |-> col]), invalidReason |-> None]

\* the captures are digits with an optional sign, so parseInt never yields NaN
ParseCaptures(m) ==
  IF m # <<>>
  THEN CheckCoordinates(parseInt(m[1]), parseInt(m[2]))
  ELSE [move |-> None, invalidReason |-> <<"invalid_syntax">>]

parseMove(response) == ParseCaptures(FirstMatch(1, LastLine(response)))

\* the user message: the side to move and the board it is shown
formatGameState(player, g) == [player |-> player, boardState |-> g.board]

\* AIPlayer.makeMove once the API call has returned the text content
MoveFromReply(messages, content) ==
  IF content = <<>>
  THEN [move |-> None,
        conversation |-> [messages |-> messages, response |-> Some(content), error |-> None],
        invalidReason |-> <<"blank">>]
  ELSE [move |-> parseMove(content).move,
        conversation |-> [messages |-> messages, response |-> Some(content), error |-> None],
        invalidReason |-> parseMove(content).invalidReason]

\* faulty variant of MoveFromError: the missing reply is reported as blank
MoveFromErrorAsBlank(messages, name, message) ==
  [move |-> None,
   conversation |-> [messages |-> messages, response |-> Some(<<>>),
                     error |-> <<"[chat]", name, ":">> \o message],
   invalidReason |-> <<"blank">>]

\* AIPlayer.makeMove once the API call has thrown: the catch block
MoveFromError(messages, name, message) ==
  [move |-> None,
   conversation |->
     [messages |-> messages, response |-> None,
      error |-> <<"[chat]", name, ":">> \o message
                  \o (IF name = "AbortError" \/ Includes(message, "aborted")
                      THEN <<"(timeout)">> ELSE <<>>)],
   invalidReason |-> None]

\* AIPlayer.makeMove, given what the API call produced: a reply text
\* ([kind |-> "reply", text]) or an error thrown by the client
\* ([kind |-> "error", name, message])
AIMakeMove(player, g, api) ==
  IF api.kind = "reply"
  THEN MoveFromReply(<<"systemPrompt", formatGameState(player, g)>>, Trim(api.text))
  ELSE MoveFromError(<<"systemPrompt", formatGameState(player, g)>>, api.name, api.message)

\* ------------------------------------------------------------ state
VARIABLES
  config,          \* Config: models, rounds, maxRetries, backoffMultiplier
  pc,              \* where runTournament / playMatch stands
  matchups,        \* runTournament: the schedule of one round
  totalMatches,    \* runTournament: matchups.length * rounds
  completedMatches,
  round, mi,       \* the two for loops: round number, index into matchups
  apiRetries, backoffTime, matchCompleted,
  game,            \* playMatch: the TicTacToeGame
  result,          \* playMatch: the MatchResult, then runTournament's result
  matchFiles,      \* Logger: matchesDir, file name -> stored MatchResult
  outcomesFile,    \* Logger: the outcome log, <<>> absent, <<log>> present
  statisticsFile,  \* Logger: the statistics, <<>> absent, <<stats>> present
  now,             \* the value Date.now() returned last
  env,             \* what the environment may still do: faults, attempts, replies
  cause,           \* history: how the running attempt ended its match
  requests,        \* history: move requests made in the running match
  wrote,           \* history: records written for the running attempt
  attemptEnds,     \* history: for the current pairing, how each attempt ended
  attemptIds,      \* history: the matchId of every attempt of the run
  accepted,        \* history: the slots whose match was accepted, in order
  call,            \* a function called on its own: its arguments, <<>> when none
  ret              \* a function called on its own: <<value returned>>, <<>> when none

vars == <<config, pc, matchups, totalMatches, completedMatches, round, mi,
          apiRetries, backoffTime, matchCompleted, game, result, matchFiles,
          outcomesFile, statisticsFile, now, env, cause, requests, wrote,
          attemptEnds, attemptIds, accepted, call, ret>>

\* the variables of a function called on its own, idle while the tournament runs
alone == <<call, ret>>

\* the variables of the tournament, idle while a function is called on its own
program == <<config, pc, matchups, totalMatches, completedMatches, round, mi,
             apiRetries, backoffTime, matchCompleted, game, result, matchFiles,
             outcomesFile, statisticsFile, now, env, cause, requests, wrote,
             attemptEnds, attemptIds, accepted>>


\* ------------------------------------------------------------ environment
Models == <<"A", "B">>

\* ids a configuration may give its two models
ModelNames == {"A", "B", "C"}

\* a reply naming a cell: "r,c"
CellText(row, col) == <<DigitChars[row + 1], ",", DigitChars[col + 1]>>

EmptyCells(g) ==
  SelectSeq([k \in 1 .. 9 |-> [row |-> (k - 1) \div 3, col |-> (k - 1) % 3]],
            LAMBDA c : g.board[c.row][c.col] = Empty)

OccupiedCells(g) ==
  SelectSeq([k \in 1 .. 9 |-> [row |-> (k - 1) \div 3, col |-> (k - 1) % 3]],
            LAMBDA c : g.board[c.row][c.col] # Empty)

\* replies that name one of the first env.width empty cells, or, where the
\* environment says so, one of the last env.tail empty cells
GoodTexts(g) ==
  {CellText(EmptyCells(g)[k].row, EmptyCells(g)[k].col) :
     k \in (1 .. (IF Len(EmptyCells(g)) < env.width THEN Len(EmptyCells(g)) ELSE env.width))
             \cup (IF "tail" \in DOMAIN env
                   THEN {j \in 1 .. Len(EmptyCells(g)) : j > Len(EmptyCells(g)) - env.tail}
                   ELSE {})}

\* replies that are blank, off the board, unparseable, or name a taken cell
BadTextList == <<(<<" ">>), <<"3", ",", "0">>, <<"-", "1", ",", "2">>, <<"h", "i">>>>

BadTexts(g) ==
  {BadTextList[k] : k \in 1 .. env.texts}
    \cup (IF Len(OccupiedCells(g)) = 0 THEN {}
          ELSE {CellText(OccupiedCells(g)[1].row, OccupiedCells(g)[1].col)})

\* errors the API client throws
ApiErrors ==
  {[kind |-> "error", name |-> "AbortError", message |-> <<"Request", "was", "aborted">>],
   [kind |-> "error", name |-> "BadRequestError", message |-> <<"input", "is", "blank">>]}

\* messages of exceptions thrown inside the match
ThrownMessageList == <<(<<"socket", "hang", "up">>), <<"unexpected", "blank", "value">>>>

ThrownMessages == {ThrownMessageList[k] : k \in 1 .. env.throws}

\* the number of the current pairing in the whole schedule
SlotNo == (round - 1) * Len(matchups) + mi

CanFault == env.faults > 0 /\ SlotNo \in env.slots
Faulted == [env EXCEPT !.faults = @ - 1]

\* ------------------------------------------------------------ logger.ts
generateMatchId(xModel, oModel, timestamp) == <<xModel, "-vs-", oModel, "-", timestamp>>

getMatchFileName(matchId) == <<"matchesDir/">> \o matchId \o <<".json">>

\* fs.writeFile of the match record: creates or overwrites the file
logMatch(files, res) ==
  [f \in DOMAIN files \cup {getMatchFileName(res.matchId)} |->
     IF f = getMatchFileName(res.matchId) THEN res ELSE files[f]]

\* the outcome log as read back; an absent file reads as the empty list
loadOutcomes(file) == IF file = None THEN <<>> ELSE file[1]

logOutcome(file, outcome) == Some(Append(loadOutcomes(file), outcome))

\* logOutcome when the try block of lines 47-52 ends in its catch although the
\* file is there (readFile rejects): the array stays empty and is written
logOutcomeUnread(file, outcome) == Some(<<outcome>>)

IsInvalid(o) == o.winner = "invalid"

\* a JavaScript number that is a quotient of two counts, in lowest terms
Gcd(a, b) == IF a = 0 THEN b ELSE Max({d \in 1 .. a : a % d = 0 /\ b % d = 0})

Ratio(n, d) == [num |-> n \div Gcd(n, d), den |-> d \div Gcd(n, d)]

\* a.winRate - b.winRate, as a sign
RatioDiff(a, b) == a.num * b.den - b.num * a.den

\* the keys of the Map in insertion order: each id where it first occurs
MapKeys(models) ==
  LET firsts == {i \in DOMAIN models : \A j \in 1 .. (i - 1) : models[j] # models[i]}
      nth[k \in 0 .. Len(models)] ==
        IF k = 0 THEN 0 ELSE Min({i \in firsts : i > nth[k - 1]} \cup {Len(models) + 1})
  IN  [k \in 1 .. Cardinality(firsts) |-> models[nth[k]]]

\* lines 76-87
ZeroStats(id) ==
  [modelId |-> id, totalMatches |-> 0, wins |-> 0, losses |-> 0, draws |-> 0,
   invalidGames |-> 0, winRate |-> Ratio(0, 1), opponents |-> <<>>]

ZeroRecord == [wins |-> 0, losses |-> 0, draws |-> 0, invalid |-> 0]

\* lines 97-98
Touch(stats, id) == [stats EXCEPT ![id].totalMatches = @ + 1]

\* lines 101-116: the record against an opponent is created when missing
Meet(stats, id, opp) ==
  IF opp \in DOMAIN stats[id].opponents THEN stats
  ELSE [stats EXCEPT ![id].opponents =
          [o \in DOMAIN @ \cup {opp} |-> IF o = opp THEN ZeroRecord ELSE @[o]]]

Count(stats, id, field) == [stats EXCEPT ![id][field] = @ + 1]

CountVs(stats, id, opp, field) == [stats EXCEPT ![id].opponents[opp][field] = @ + 1]

\* one branch of lines 119-139: the four increments, in the order of the code
Score(stats, o, fx, fo, hx, ho) ==
  CountVs(CountVs(Count(Count(stats, o.X, fx), o.O, fo), o.X, o.O, hx), o.O, o.X, ho)

\* faulty variant of ScoreOutcome: when O wins, O's record against X gets a loss
ScoreOutcomeLossForO(stats, o) ==
  IF o.winner = "invalid"
  THEN Score(stats, o, "invalidGames", "invalidGames", "invalid", "invalid")
  ELSE IF o.winner = "draw" THEN Score(stats, o, "draws", "draws", "draws", "draws")
  ELSE IF o.winner = "X" THEN Score(stats, o, "wins", "losses", "wins", "losses")
  ELSE IF o.winner = "O" THEN Score(stats, o, "losses", "wins", "losses", "losses")
  ELSE stats

\* lines 119-139
ScoreOutcome(stats, o) ==
  IF o.winner = "invalid"
  THEN Score(stats, o, "invalidGames", "invalidGames", "invalid", "invalid")
  ELSE IF o.winner = "draw" THEN Score(stats, o, "draws", "draws", "draws", "draws")
  ELSE IF o.winner = "X" THEN Score(stats, o, "wins", "losses", "wins", "losses")
  ELSE IF o.winner = "O" THEN Score(stats, o, "losses", "wins", "losses", "wins")
  ELSE stats

\* faulty variant of Tally: the match is counted for the X model only
TallyCountsForX(stats, o) ==
  IF o.X \notin DOMAIN stats \/ o.O \notin DOMAIN stats THEN stats
  ELSE ScoreOutcome(Meet(Meet(Touch(stats, o.X), o.X, o.O), o.O, o.X), o)

\* lines 90-140, one outcome; an outcome of an unknown model is skipped
Tally(stats, o) ==
  IF o.X \notin DOMAIN stats \/ o.O \notin DOMAIN stats THEN stats
  ELSE ScoreOutcome(Meet(Meet(Touch(Touch(stats, o.X), o.O), o.X, o.O), o.O, o.X), o)

RECURSIVE TallyAll(_, _, _)
TallyAll(stats, outcomes, k) ==
  IF k > Len(outcomes) THEN stats ELSE TallyAll(Tally(stats, outcomes[k]), outcomes, k + 1)

\* faulty variant of WithWinRate: invalid games stay in the denominator
WithWinRateOfAllGames(st) ==
  [st EXCEPT !.winRate = IF st.totalMatches > 0 THEN Ratio(st.wins, st.totalMatches)
                         ELSE Ratio(0, 1)]

\* faulty variant of WithWinRate: draws are left out of the denominator too
WithWinRateOfDecidedGames(st) ==
  [st EXCEPT !.winRate = IF st.wins + st.losses > 0
                         THEN Ratio(st.wins, st.wins + st.losses)
                         ELSE Ratio(0, 1)]

\* lines 143-146
WithWinRate(st) ==
  [st EXCEPT !.winRate = IF st.totalMatches - st.invalidGames > 0
                         THEN Ratio(st.wins, st.totalMatches - st.invalidGames)
                         ELSE Ratio(0, 1)]

\* faulty variant of Compare: ties on the win rate are left as they are
CompareRateOnly(a, b) == RatioDiff(b.winRate, a.winRate)

\* lines 150-153, the comparator: positive when b goes first
Compare(a, b) ==
  IF RatioDiff(b.winRate, a.winRate) # 0 THEN RatioDiff(b.winRate, a.winRate)
  ELSE b.wins - a.wins

\* Array.prototype.sort is stable: x goes behind everything that does not follow it
InsertSorted(sorted, x) ==
  LET k == Cardinality({i \in DOMAIN sorted : Compare(sorted[i], x) <= 0})
  IN  SubSeq(sorted, 1, k) \o <<x>> \o SubSeq(sorted, k + 1, Len(sorted))

RECURSIVE SortFrom(_, _, _)
SortFrom(sorted, list, k) ==
  IF k > Len(list) THEN sorted ELSE SortFrom(InsertSorted(sorted, list[k]), list, k + 1)

\* lines 154-159
Ranked(sorted) ==
  [k \in DOMAIN sorted |->
     [modelId |-> sorted[k].modelId, rank |-> k,
      winRate |-> sorted[k].winRate, totalWins |-> sorted[k].wins]]

\* lines 149-159
Rankings(list) == Ranked(SortFrom(<<>>, list, 1))

\* Array.from(modelStats.values()): the records in the order of the keys
Values(stats, keys) == [k \in DOMAIN keys |-> WithWinRate(stats[keys[k]])]

\* lines 73-146
ModelStatsOf(outcomes, models) ==
  Values(TallyAll([id \in Range(models) |-> ZeroStats(id)], outcomes, 1), MapKeys(models))

\* faulty variant of generateStatistics: the matches this run counted
generateStatisticsOfThisRun(file, models, expectedTotalMatches, timestamp) ==
  [totalMatches |-> expectedTotalMatches,
   completedMatches |-> completedMatches,
   invalidMatches |-> Len(loadOutcomes(file)) - completedMatches,
   models |-> <<>>, rankings |-> <<>>, timestamp |-> timestamp]

\* lines 161-172
TournamentStatsOf(outcomes, list, expectedTotalMatches, timestamp) ==
  [totalMatches |-> IF expectedTotalMatches # 0 THEN expectedTotalMatches
                    ELSE Len(outcomes),
   completedMatches |-> Len(SelectSeq(outcomes, LAMBDA o : ~IsInvalid(o))),
   invalidMatches |-> Len(SelectSeq(outcomes, IsInvalid)),
   models |-> list,
   rankings |-> Rankings(list),
   timestamp |-> timestamp]

generateStatistics(file, models, expectedTotalMatches, timestamp) ==
  TournamentStatsOf(loadOutcomes(file), ModelStatsOf(loadOutcomes(file), models),
                    expectedTotalMatches, timestamp)

\* ------------------------------------------------------------ tournament.ts
\* faulty variant of generateMatchups: every pair plays one way only
generateMatchupsOneWay(models) ==
  LET n == Len(models)
      pairs == [k \in 1 .. (n * n) |-> [i |-> ((k - 1) \div n) + 1, j |-> ((k - 1) % n) + 1]]
      distinct == SelectSeq(pairs, LAMBDA q : q.i < q.j)
  IN  [k \in 1 .. Len(distinct) |->
         [xModel |-> models[distinct[k].i], oModel |-> models[distinct[k].j]]]

generateMatchups(models) ==
  LET n == Len(models)
      pairs == [k \in 1 .. (n * n) |-> [i |-> ((k - 1) \div n) + 1, j |-> ((k - 1) % n) + 1]]
      distinct == SelectSeq(pairs, LAMBDA q : q.i # q.j)
  IN  [k \in 1 .. Len(distinct) |->
         [xModel |-> models[distinct[k].i], oModel |-> models[distinct[k].j]]]

\* playMatch, lines 54-71: the record a match starts with
NewResult(xModel, oModel, timestamp) ==
  [matchId |-> generateMatchId(xModel, oModel, timestamp),
   X |-> xModel, O |-> oModel, winner |-> "invalid", winnerModel |-> None,
   moves |-> <<>>, conversations |-> <<>>, invalidMoves |-> <<>>,
   invalidReason |-> <<>>, timestamp |-> timestamp]

\* playMatch, line 100: the conversation is recorded once makeMove has returned
PushConversation(res, r) == [res EXCEPT !.conversations = Append(@, r.conversation)]

\* faulty variant of InvalidOutput: the invalid reply is recorded but the loop
\* goes on to the next turn instead of leaving (continue for break)
InvalidOutputSkipsTurn(res, g, r) ==
  [brk |-> FALSE, game |-> g, cause |-> "textual",
   result |-> [res EXCEPT
      !.invalidMoves =
         Append(@, [player |-> g.currentPlayer,
                    type |-> r.invalidReason[1],
                    details |-> r.invalidReason]),
      !.invalidReason = <<g.currentPlayer, ":">> \o r.invalidReason]]

\* playMatch, lines 103-116 and 128: the reply was classified invalid
InvalidOutput(res, g, r) ==
  [brk |-> TRUE, game |-> g, cause |-> "textual",
   result |-> [res EXCEPT
      !.invalidMoves =
         Append(@, [player |-> g.currentPlayer,
                    type |-> r.invalidReason[1],
                    details |-> IF r.conversation.response # None
                                   /\ Trim(r.conversation.response[1]) # <<>>
                                THEN r.conversation.response[1]
                                ELSE r.invalidReason]),
      !.invalidReason = <<g.currentPlayer, ":">> \o r.invalidReason]]

\* faulty variant of TransportFailure: the missing move is also booked as a
\* blank reply of the model
TransportFailureAsBlank(res, g, r) ==
  [brk |-> TRUE, game |-> g, cause |-> "api_error",
   result |-> [res EXCEPT
      !.invalidMoves = Append(@, [player |-> g.currentPlayer, type |-> "blank",
                                  details |-> <<"blank">>]),
      !.invalidReason = <<g.currentPlayer, ":", "api_error">>]]

\* playMatch, lines 117-128: no move and no classification, the API call failed
TransportFailure(res, g, r) ==
  [brk |-> TRUE, game |-> g, cause |-> "api_error",
   result |-> [res EXCEPT
      !.invalidReason = <<g.currentPlayer, ":">>
                          \o (IF r.conversation.error # None
                              THEN <<"api_error", "-">> \o r.conversation.error
                              ELSE <<"api_error">>)]]

\* the text (row,col) of the occupied_cell diagnostic
CellDetails(move) == <<"(", DigitChars[move.row + 1], ",", DigitChars[move.col + 1], ")">>

\* faulty variant of MoveTried: the rejected move is recorded but the loop goes on
MoveTriedKeepsPlaying(res, g, move, made) ==
  IF ~made.ok
  THEN [brk |-> FALSE, game |-> g, cause |-> "textual",
        result |-> [res EXCEPT
           !.invalidMoves = Append(@, [player |-> g.currentPlayer,
                                       type |-> "occupied_cell",
                                       details |-> CellDetails(move)]),
           !.invalidReason = <<g.currentPlayer, ":", "occupied_cell">> \o CellDetails(move)]]
  ELSE [brk |-> FALSE, game |-> made.game, cause |-> "none", result |-> res]

\* playMatch, lines 131-144: the move is given to the game, made is what it answered
MoveTried(res, g, move, made) ==
  IF ~made.ok
  THEN [brk |-> TRUE, game |-> g, cause |-> "textual",
        result |-> [res EXCEPT
           !.invalidMoves = Append(@, [player |-> g.currentPlayer,
                                       type |-> "occupied_cell",
                                       details |-> CellDetails(move)]),
           !.invalidReason = <<g.currentPlayer, ":", "occupied_cell">> \o CellDetails(move)]]
  ELSE [brk |-> FALSE, game |-> made.game, cause |-> "none", result |-> res]

\* playMatch, lines 100-144: one pass of the while loop once makeMove has returned r;
\* brk tells whether the loop is left
TurnReturned(res, g, r) ==
  IF r.move = None
  THEN IF r.invalidReason # None
       THEN InvalidOutput(PushConversation(res, r), g, r)
       ELSE TransportFailure(PushConversation(res, r), g, r)
  ELSE MoveTried(PushConversation(res, r), g, r.move[1],
                 makeMove(g, r.move[1].row, r.move[1].col))

\* playMatch, the catch block of the loop
TurnThrew(res, g, message) ==
  [res EXCEPT !.invalidReason = <<g.currentPlayer, "encountered", "an", "error", ":">> \o message]

\* faulty variant of FinishResult: winnerModel is the X model whoever won
FinishResultCreditsX(res, g) ==
  IF res.invalidReason = <<>>
  THEN [res EXCEPT !.moves = g.moves, !.winner = checkWinner(g),
                   !.winnerModel = IF checkWinner(g) \in {"X", "O"} THEN Some(res.X) ELSE @]
  ELSE [res EXCEPT !.moves = g.moves]

\* playMatch, lines 156-176
FinishResult(res, g) ==
  LET res1 == [res EXCEPT !.moves = g.moves]
  IN  IF res1.invalidReason = <<>>
      THEN LET w == checkWinner(g)
           IN  [res1 EXCEPT !.winner = w,
                            !.winnerModel = IF w = "X" THEN Some(res1.X)
                                            ELSE IF w = "O" THEN Some(res1.O)
                                            ELSE @]
      ELSE res1

\* runTournament, lines 222-231
Outcome(res) ==
  [matchId |-> res.matchId, X |-> res.X, O |-> res.O,
   winner |-> IF res.invalidReason # <<>> THEN "invalid" ELSE res.winner,
   winnerModel |-> res.winnerModel, invalidReason |-> res.invalidReason,
   matchFile |-> getMatchFileName(res.matchId), timestamp |-> res.timestamp]

\* faulty variant of IsAccepted: whatever playMatch returned is accepted
AcceptsEveryResult(res) == TRUE

\* runTournament, line 235: the attempt is accepted when it has no invalid reason
IsAccepted(res) == res.invalidReason = <<>>

\* faulty variant of isInvalidMove: "blank" is missing from the list
isInvalidMoveNoBlank(res) ==
  \E i \in 2 .. Len(InvalidMoveTypes) : Includes(res.invalidReason, InvalidMoveTypes[i])

\* runTournament, lines 244-254
isInvalidMove(res) ==
  \E i \in DOMAIN InvalidMoveTypes : Includes(res.invalidReason, InvalidMoveTypes[i])

\* ------------------------------------------------------------ initial states
RetryLimits == {2, 3}

NumSlots == Len(Models) * (Len(Models) - 1) * NumRounds

NoResult == NewResult("", "", 0)

InitProgram ==
  /\ pc = "start"
  /\ matchups = <<>> /\ totalMatches = 0 /\ completedMatches = 0
  /\ round = 0 /\ mi = 0
  /\ apiRetries = 0 /\ backoffTime = 0 /\ matchCompleted = FALSE
  /\ game = NewGame /\ result = NoResult
  /\ matchFiles = <<>> /\ outcomesFile = None /\ statisticsFile = None
  /\ now = 0
  /\ cause = "none" /\ requests = 0 /\ wrote = 0
  /\ attemptEnds = <<>> /\ attemptIds = <<>> /\ accepted = <<>>

\* a whole tournament, the models answering with the first empty cell; faults hit
\* the first move request of a match, many of them in the last pairing
InitStorm ==
  /\ config \in [models : {Models}, rounds : {NumRounds},
                 maxRetries : RetryLimits, backoffMultiplier : {2}]
  /\ env = [faults |-> MaxFaults, slots |-> {NumSlots}, depth |-> 1, width |-> 1,
            texts |-> 1, throws |-> 1, logFaults |-> TRUE,
            attempts |-> NumSlots + MaxFaults]
  /\ InitProgram

\* a whole tournament with few faults, in any pairing
InitSpread ==
  /\ config \in [models : {Models}, rounds : {NumRounds},
                 maxRetries : RetryLimits, backoffMultiplier : {2}]
  /\ env = [faults |-> SpreadFaults, slots |-> 1 .. NumSlots, depth |-> 1, width |-> 1,
            texts |-> 1, throws |-> 1, logFaults |-> TRUE,
            attempts |-> NumSlots + SpreadFaults]
  /\ InitProgram

\* one attempt explored in depth: faults on any turn, several replies per
\* position, the writes of the logger succeed
InitMatch ==
  /\ config = [models |-> Models, rounds |-> NumRounds,
               maxRetries |-> 3, backoffMultiplier |-> 2]
  /\ env = [faults |-> DeepFaults, slots |-> {1}, depth |-> 9, width |-> DeepWidth,
            texts |-> 4, throws |-> 2, logFaults |-> FALSE, attempts |-> 1]
  /\ InitProgram

Init == (InitStorm \/ InitSpread \/ InitMatch) /\ call = None /\ ret = None

\* ------------------------------------------------------------ runTournament
StartTournament ==
  /\ pc = "start"
  /\ matchups' = generateMatchups(config.models)
  /\ totalMatches' = Len(generateMatchups(config.models)) * config.rounds
  /\ completedMatches' = 0
  /\ round' = 1 /\ mi' = 1
  /\ pc' = "for"
  /\ UNCHANGED <<config, apiRetries, backoffTime, matchCompleted, game, result,
                 matchFiles, outcomesFile, statisticsFile, now, env, cause,
                 requests, wrote, attemptEnds, attemptIds, accepted>>
  /\ UNCHANGED alone

\* the heads of the two for loops, and lines 210-212 for the next pairing
NextPairing ==
  /\ pc = "for"
  /\ IF round > config.rounds
     THEN /\ pc' = "stats"
          /\ UNCHANGED <<round, mi, apiRetries, backoffTime, matchCompleted, attemptEnds>>
     ELSE IF mi > Len(matchups)
     THEN /\ round' = round + 1 /\ mi' = 1 /\ pc' = "for"
          /\ UNCHANGED <<apiRetries, backoffTime, matchCompleted, attemptEnds>>
     ELSE /\ apiRetries' = 0 /\ backoffTime' = BaseBackoff /\ matchCompleted' = FALSE
          /\ attemptEnds' = <<>>
          /\ pc' = "while"
          /\ UNCHANGED <<round, mi>>
  /\ UNCHANGED <<config, matchups, totalMatches, completedMatches, game, result,
                 matchFiles, outcomesFile, statisticsFile, now, env, cause,
                 requests, wrote, attemptIds, accepted>>
  /\ UNCHANGED alone

Slept == attemptEnds # <<>> /\ attemptEnds[Len(attemptEnds)].delay > 0

\* playMatch, lines 50-73
BeginMatch ==
  /\ pc = "while" /\ ~matchCompleted /\ env.attempts > 0
  /\ \E t \in {now, now + 1} :
       /\ t = now => attemptIds # <<>> /\ ~Slept /\ CanFault
       /\ now' = t
       /\ env' = [env EXCEPT !.attempts = @ - 1, !.faults = IF t = now THEN @ - 1 ELSE @]
       /\ result' = NewResult(matchups[mi].xModel, matchups[mi].oModel, t)
       /\ attemptIds' = Append(attemptIds,
                               generateMatchId(matchups[mi].xModel, matchups[mi].oModel, t))
  /\ game' = NewGame
  /\ cause' = "none" /\ requests' = 0 /\ wrote' = 0
  /\ pc' = "turn"
  /\ UNCHANGED <<config, matchups, totalMatches, completedMatches, round, mi,
                 apiRetries, backoffTime, matchCompleted, matchFiles, outcomesFile,
                 statisticsFile, attemptEnds, accepted>>
  /\ UNCHANGED alone

\* playMatch throws before its loop (the AIPlayer constructor rejects the model)
PlayMatchThrows ==
  /\ pc = "while" /\ ~matchCompleted /\ env.attempts > 0 /\ CanFault
  /\ env' = [env EXCEPT !.attempts = @ - 1, !.faults = @ - 1]
  /\ cause' = "thrown" /\ requests' = 0 /\ wrote' = 0
  /\ pc' = "catch"
  /\ UNCHANGED <<config, matchups, totalMatches, completedMatches, round, mi,
                 apiRetries, backoffTime, matchCompleted, game, result, matchFiles,
                 outcomesFile, statisticsFile, now, attemptEnds, attemptIds, accepted>>
  /\ UNCHANGED alone

CanFaultTurn == CanFault /\ Len(game.moves) < env.depth

\* playMatch, lines 75-144: makeMove returned for the API result api
Turn(api) ==
  /\ pc = "turn" /\ ~isGameOver(game)
  /\ \E t \in {TurnReturned(result, game, AIMakeMove(game.currentPlayer, game, api))} :
       /\ result' = t.result
       /\ game' = t.game
       /\ cause' = t.cause
       /\ pc' = IF t.brk THEN "finish" ELSE "turn"
  /\ requests' = requests + 1
  /\ UNCHANGED <<config, matchups, totalMatches, completedMatches, round, mi,
                 apiRetries, backoffTime, matchCompleted, matchFiles, outcomesFile,
                 statisticsFile, now, wrote, attemptEnds, attemptIds, accepted>>
  /\ UNCHANGED alone

ModelReplies ==
  \E text \in GoodTexts(game) : Turn([kind |-> "reply", text |-> text]) /\ UNCHANGED env

ModelRepliesBadly ==
  /\ CanFaultTurn
  /\ \E text \in BadTexts(game) : Turn([kind |-> "reply", text |-> text])
  /\ env' = Faulted

ApiCallFails ==
  /\ CanFaultTurn
  /\ \E api \in ApiErrors : Turn(api)
  /\ env' = Faulted

\* playMatch, lines 145-153: makeMove threw
MakeMoveThrows ==
  /\ pc = "turn" /\ ~isGameOver(game) /\ CanFaultTurn
  /\ \E message \in ThrownMessages : result' = TurnThrew(result, game, message)
  /\ cause' = "exception"
  /\ requests' = requests + 1
  /\ env' = Faulted
  /\ pc' = "finish"
  /\ UNCHANGED <<config, matchups, totalMatches, completedMatches, round, mi,
                 apiRetries, backoffTime, matchCompleted, game, matchFiles, outcomesFile,
                 statisticsFile, now, wrote, attemptEnds, attemptIds, accepted>>
  /\ UNCHANGED alone

\* playMatch, lines 156-176, and the return to runTournament
FinishMatch ==
  /\ pc = "finish" \/ (pc = "turn" /\ isGameOver(game))
  /\ result' = FinishResult(result, game)
  /\ cause' = IF cause = "none" THEN "valid" ELSE cause
  /\ pc' = "logMatch"
  /\ UNCHANGED <<config, matchups, totalMatches, completedMatches, round, mi,
                 apiRetries, backoffTime, matchCompleted, game, matchFiles, outcomesFile,
                 statisticsFile, now, env, requests, wrote, attemptEnds, attemptIds,
                 accepted>>
  /\ UNCHANGED alone

\* runTournament, line 219
LogMatch ==
  /\ pc = "logMatch"
  /\ matchFiles' = logMatch(matchFiles, result)
  /\ wrote' = wrote + 1
  /\ pc' = "logOutcome"
  /\ UNCHANGED <<config, matchups, totalMatches, completedMatches, round, mi,
                 apiRetries, backoffTime, matchCompleted, game, result, outcomesFile,
                 statisticsFile, now, env, cause, requests, attemptEnds, attemptIds,
                 accepted>>
  /\ UNCHANGED alone

\* runTournament, lines 222-233
LogOutcome ==
  /\ pc = "logOutcome"
  /\ outcomesFile' = logOutcome(outcomesFile, Outcome(result))
  /\ wrote' = wrote + 1
  /\ pc' = "decide"
  /\ UNCHANGED <<config, matchups, totalMatches, completedMatches, round, mi,
                 apiRetries, backoffTime, matchCompleted, game, result, matchFiles,
                 statisticsFile, now, env, cause, requests, attemptEnds, attemptIds,
                 accepted>>
  /\ UNCHANGED alone

\* a write of the logger fails (fs.writeFile rejects): control goes to the catch block
LoggerThrows ==
  /\ pc \in {"logMatch", "logOutcome"} /\ CanFault /\ env.logFaults
  /\ env' = Faulted
  /\ cause' = "thrown"
  /\ pc' = "catch"
  /\ UNCHANGED <<config, matchups, totalMatches, completedMatches, round, mi,
                 apiRetries, backoffTime, matchCompleted, game, result, matchFiles,
                 outcomesFile, statisticsFile, now, requests, wrote, attemptEnds,
                 attemptIds, accepted>>
  /\ UNCHANGED alone

AttemptEnd == [kind |-> cause, wrote |-> wrote, waited |-> FALSE, delay |-> 0]

\* runTournament, lines 235-241, and the loop heads that follow
AcceptMatch ==
  /\ pc = "decide" /\ IsAccepted(result)
  /\ completedMatches' = completedMatches + 1
  /\ matchCompleted' = TRUE
  /\ accepted' = Append(accepted, [round |-> round, index |-> mi, X |-> result.X,
                                    O |-> result.O, winner |-> result.winner])
  /\ attemptEnds' = Append(attemptEnds, AttemptEnd)
  /\ mi' = mi + 1
  /\ pc' = "for"
  /\ UNCHANGED <<config, matchups, totalMatches, round, apiRetries, backoffTime, game,
                 result, matchFiles, outcomesFile, statisticsFile, now, env, cause,
                 requests, wrote, attemptIds>>
  /\ UNCHANGED alone

\* runTournament, lines 256-261
RetryImmediately ==
  /\ pc = "decide" /\ ~IsAccepted(result) /\ isInvalidMove(result)
  /\ attemptEnds' = Append(attemptEnds, AttemptEnd)
  /\ pc' = "while"
  /\ UNCHANGED <<config, matchups, totalMatches, completedMatches, round, mi,
                 apiRetries, backoffTime, matchCompleted, game, result, matchFiles,
                 outcomesFile, statisticsFile, now, env, cause, requests, wrote,
                 attemptIds, accepted>>
  /\ UNCHANGED alone

\* lines 264-275 and 284-297: count the failure, wait for the operator at the limit
CountFailure ==
  /\ apiRetries' = apiRetries + 1
  /\ attemptEnds' = Append(attemptEnds, AttemptEnd)
  /\ pc' = IF apiRetries + 1 >= config.maxRetries THEN "wait" ELSE "sleep"
  /\ UNCHANGED <<config, matchups, totalMatches, completedMatches, round, mi,
                 backoffTime, matchCompleted, game, result, matchFiles, outcomesFile,
                 statisticsFile, now, env, cause, requests, wrote, attemptIds, accepted>>
  /\ UNCHANGED alone

\* runTournament, lines 262-275
ApiFailure ==
  /\ pc = "decide" /\ ~IsAccepted(result) /\ ~isInvalidMove(result)
  /\ CountFailure

\* runTournament, lines 282-297
CatchError ==
  /\ pc = "catch"
  /\ CountFailure

\* faulty variant of Acknowledge: after the operator's key the pairing is given up
AcknowledgeAbandons ==
  /\ pc = "wait"
  /\ apiRetries' = 0
  /\ attemptEnds' = [attemptEnds EXCEPT ![Len(attemptEnds)].waited = TRUE]
  /\ mi' = mi + 1
  /\ pc' = "for"
  /\ UNCHANGED <<config, matchups, totalMatches, completedMatches, round,
                 backoffTime, matchCompleted, game, result, matchFiles, outcomesFile,
                 statisticsFile, now, env, cause, requests, wrote, attemptIds, accepted>>
  /\ UNCHANGED alone

\* waitForUserInput resolves, then lines 274 / 296
Acknowledge ==
  /\ pc = "wait"
  /\ apiRetries' = 0
  /\ attemptEnds' = [attemptEnds EXCEPT ![Len(attemptEnds)].waited = TRUE]
  /\ pc' = "sleep"
  /\ UNCHANGED <<config, matchups, totalMatches, completedMatches, round, mi,
                 backoffTime, matchCompleted, game, result, matchFiles, outcomesFile,
                 statisticsFile, now, env, cause, requests, wrote, attemptIds, accepted>>
  /\ UNCHANGED alone

\* lines 277-279 / 299-301: the sleep ends
Sleep ==
  /\ pc = "sleep"
  /\ attemptEnds' = [attemptEnds EXCEPT ![Len(attemptEnds)].delay = backoffTime]
  /\ backoffTime' = backoffTime * config.backoffMultiplier
  /\ pc' = "while"
  /\ UNCHANGED <<config, matchups, totalMatches, completedMatches, round, mi,
                 apiRetries, matchCompleted, game, result, matchFiles, outcomesFile,
                 statisticsFile, now, env, cause, requests, wrote, attemptIds, accepted>>
  /\ UNCHANGED alone

\* runTournament, lines 310-318
GenerateStatistics ==
  /\ pc = "stats"
  /\ \E t \in {now, now + 1} :
       /\ statisticsFile' = Some(generateStatistics(outcomesFile, config.models,
                              Len(generateMatchups(config.models)) * config.rounds, t))
       /\ now' = t
  /\ pc' = "done"
  /\ UNCHANGED <<config, matchups, totalMatches, completedMatches, round, mi,
                 apiRetries, backoffTime, matchCompleted, game, result, matchFiles,
                 outcomesFile, env, cause, requests, wrote, attemptEnds,
                 attemptIds, accepted>>
  /\ UNCHANGED alone

Next ==
  \/ StartTournament
  \/ NextPairing
  \/ BeginMatch
  \/ PlayMatchThrows
  \/ ModelReplies
  \/ ModelRepliesBadly
  \/ ApiCallFails
  \/ MakeMoveThrows
  \/ FinishMatch
  \/ LogMatch
  \/ LogOutcome
  \/ LoggerThrows
  \/ AcceptMatch
  \/ RetryImmediately
  \/ ApiFailure
  \/ CatchError
  \/ Acknowledge
  \/ Sleep
  \/ GenerateStatistics

Spec == Init /\ [][Next]_vars

\* a whole tournament, from its first pairing to the statistics, with the
\* smaller retry limit: the operator is called in more than once
LiveInit == InitStorm /\ config.maxRetries = Min(RetryLimits) /\ call = None /\ ret = None

\* the await of a move request resumes: makeMove has returned or thrown
TurnSettles ==
  /\ pc = "turn" /\ ~isGameOver(game)
  /\ requests' = requests + 1

\* the steps of runTournament and playMatch between these awaits
Resumes ==
  \/ StartTournament
  \/ NextPairing
  \/ BeginMatch
  \/ PlayMatchThrows
  \/ FinishMatch
  \/ LogMatch
  \/ LogOutcome
  \/ LoggerThrows
  \/ AcceptMatch
  \/ RetryImmediately
  \/ ApiFailure
  \/ CatchError
  \/ Acknowledge
  \/ Sleep

\* the await of generateStatistics resumes: the statistics are written
StatisticsSettle ==
  /\ pc = "stats"
  /\ pc' = "done"

\* runTournament is one sequential async function: each await resumes once its
\* promise settles.  The API call settles by its timeout at the latest, the
\* sleep by its timer, the wait for the operator when a key is pressed; so a
\* step that can be taken is taken.  The faults of the environment are finite:
\* every pairing ends up with an attempt that no fault hits.
LiveSpec ==
  /\ LiveInit /\ [][Next]_vars
  /\ WF_vars(Resumes) /\ WF_requests(TurnSettles) /\ WF_pc(StatisticsSettle)

\* ------------------------------------------------------------ a later run
\* an outcome record of the log, as runTournament writes it (lines 222-231)
Logged(x, o, winner, timestamp) ==
  [matchId |-> generateMatchId(x, o, timestamp), X |-> x, O |-> o, winner |-> winner,
   winnerModel |-> IF winner = "X" THEN Some(x) ELSE IF winner = "O" THEN Some(o) ELSE None,
   invalidReason |-> IF winner = "invalid" THEN <<"X", ":", "blank">> ELSE <<>>,
   matchFile |-> getMatchFileName(generateMatchId(x, o, timestamp)),
   timestamp |-> timestamp]

\* outcome logs that earlier runs of the program left in the outcome file
PriorLogs ==
  {<<Logged("A", "B", "X", 1), Logged("B", "A", "invalid", 2)>>,
   <<Logged("C", "A", "O", 1), Logged("A", "C", "draw", 2)>>}

\* the program is started again on the files of an earlier run: the outcome
\* file holds a log; faults as in InitStorm
RerunInit ==
  /\ config = [models |-> Models, rounds |-> NumRounds,
               maxRetries |-> Min(RetryLimits), backoffMultiplier |-> 2]
  /\ \E prior \in PriorLogs :
       /\ env = [faults |-> MaxFaults, slots |-> {NumSlots}, depth |-> 1, width |-> 1,
                 texts |-> 1, throws |-> 1, logFaults |-> TRUE,
                 attempts |-> NumSlots + MaxFaults, prior |-> prior]
       /\ outcomesFile = Some(prior)
  /\ pc = "start"
  /\ matchups = <<>> /\ totalMatches = 0 /\ completedMatches = 0
  /\ round = 0 /\ mi = 0
  /\ apiRetries = 0 /\ backoffTime = 0 /\ matchCompleted = FALSE
  /\ game = NewGame /\ result = NoResult
  /\ matchFiles = <<>> /\ statisticsFile = None
  /\ now = 3
  /\ cause = "none" /\ requests = 0 /\ wrote = 0
  /\ attemptEnds = <<>> /\ attemptIds = <<>> /\ accepted = <<>>
  /\ call = None /\ ret = None

RerunSpec == RerunInit /\ [][Next]_vars

\* ------------------------------------------------------------ a run without faults
\* two models, one round; every model answers every request with the first
\* empty cell in row-major order, and nothing fails
FirstCellInit ==
  /\ config \in [models : [1 .. 2 -> ModelNames], rounds : {1},
                 maxRetries : RetryLimits, backoffMultiplier : {2}]
  /\ env = [faults |-> 0, slots |-> {}, depth |-> 0, width |-> 1,
            texts |-> 0, throws |-> 0, logFaults |-> FALSE, attempts |-> 2]
  /\ InitProgram
  /\ call = None /\ ret = None

\* the steps of runTournament that such a run takes; the others need a fault
FirstCellNext ==
  \/ StartTournament
  \/ NextPairing
  \/ BeginMatch
  \/ ModelReplies
  \/ FinishMatch
  \/ LogMatch
  \/ LogOutcome
  \/ AcceptMatch
  \/ GenerateStatistics

FirstCellSpec == FirstCellInit /\ [][FirstCellNext]_vars

\* ------------------------------------------------------------ one attempt in depth
\* the first attempt of the first pairing as in InitMatch: faults on any turn,
\* several replies per position
AttemptInit == InitMatch /\ call = None /\ ret = None

\* the steps of runTournament up to the attempt after it; the writes of the
\* logger succeed and the operator is not needed
AttemptNext ==
  \/ StartTournament
  \/ NextPairing
  \/ BeginMatch
  \/ PlayMatchThrows
  \/ ModelReplies
  \/ ModelRepliesBadly
  \/ ApiCallFails
  \/ MakeMoveThrows
  \/ FinishMatch
  \/ LogMatch
  \/ LogOutcome
  \/ AcceptMatch
  \/ RetryImmediately
  \/ ApiFailure
  \/ CatchError
  \/ Sleep

AttemptSpec == AttemptInit /\ [][AttemptNext]_vars

\* ------------------------------------------------------------ one match of legal moves
\* the first attempt of the first pairing when nothing fails and every reply
\* names an empty cell: one of the first DeepWidth or the last one in
\* row-major order
PlayInit ==
  /\ config = [models |-> Models, rounds |-> NumRounds,
               maxRetries |-> 3, backoffMultiplier |-> 2]
  /\ env = [faults |-> 0, slots |-> {}, depth |-> 0, width |-> DeepWidth, tail |-> 1,
            texts |-> 0, throws |-> 0, logFaults |-> FALSE, attempts |-> 1]
  /\ InitProgram
  /\ call = None /\ ret = None

\* the steps of runTournament that such a match takes
PlayNext ==
  \/ StartTournament
  \/ NextPairing
  \/ BeginMatch
  \/ ModelReplies
  \/ FinishMatch
  \/ LogMatch
  \/ LogOutcome
  \/ AcceptMatch

PlaySpec == PlayInit /\ [][PlayNext]_vars

\* ------------------------------------------------------------ functions on their own
\* the state in which a function is called on its own: the tournament not started
InitPure ==
  /\ config = [models |-> Models, rounds |-> NumRounds,
               maxRetries |-> Max(RetryLimits), backoffMultiplier |-> 2]
  /\ env = [faults |-> 0, slots |-> {}, depth |-> 0, width |-> DeepWidth,
            texts |-> 0, throws |-> 0, logFaults |-> FALSE, attempts |-> 0]
  /\ InitProgram

\* ---- AIPlayer.makeMove
\* the characters replies are made of
ReplyChars == {"1", "3", "-", ",", " ", "\n", "x"}

\* replies quoted in the documentation of the parser
SampleReplies ==
  {<<"-", "5", ",", "9">>,
   <<"-", "1", ",", "2">>,
   <<"3", ",", "0">>,
   <<"h", "e", "l", "l", "o">>,
   <<"1", ",", "1", "\n", "x">>,
   <<"I", "'", "l", "l", " ", "p", "l", "a", "y", " ", "(", "1", ",", "2", ")", "\n",
     "1", ",", "2">>,
   <<"(", "0", ",", "1", ")", "\n", "\n", "2", " ", "2", " ", "\n">>}

\* replies whose last line holds coordinates in more than one form
MixedReplies ==
  {<<"(", "1", ",", "2", ")", " ", "r", "o", "w", " ", "0", " ", "c", "o", "l", " ",
     "1">>,
   <<"3", ",", "0", " ", "(", "1", ",", "2", ")">>,
   <<"(", "5", ",", "5", ")", " ", "1", " ", "2">>,
   <<"1", " ", "2", ",", " ", "0">>,
   <<"-", "1", " ", "2", " ", "r", "o", "w", " ", "1", " ", "c", "o", "l", " ", "9">>}

\* every reply of at most MaxParts characters, the quoted and the mixed ones
ReplyTexts ==
  UNION {[1 .. k -> ReplyChars] : k \in 0 .. MaxParts} \cup SampleReplies \cup MixedReplies

\* what the API call of one move request may produce
ApiOutcomes ==
  {[kind |-> "reply", text |-> t] : t \in ReplyTexts}
    \cup ApiErrors
    \cup {[kind |-> "error", name |-> "Error", message |-> <<"Connection", "error.">>]}

MakeMoveInit == InitPure /\ call \in ApiOutcomes /\ ret = None

\* aiPlayer.makeMove("X", ...) on the empty board, the API call producing call
CallMakeMove ==
  /\ ret = None
  /\ ret' = Some(AIMakeMove("X", game, call))
  /\ UNCHANGED <<program, call>>

MakeMoveSpec == MakeMoveInit /\ [][CallMakeMove]_vars

\* ---- TicTacToeGame
\* the variables of the tournament but the game
aside == <<config, pc, matchups, totalMatches, completedMatches, round, mi,
           apiRetries, backoffTime, matchCompleted, result, matchFiles,
           outcomesFile, statisticsFile, now, env, cause, requests, wrote,
           attemptEnds, attemptIds, accepted>>

\* coordinates a caller may pass: the board and one step off it on every side
Coordinates == -1 .. BoardSize

\* cells off the board: one on each side, one past a corner
OffBoard == {<<-1, 0>>, <<0, -1>>, <<BoardSize, 0>>, <<0, BoardSize>>, <<-1, BoardSize>>}

\* the cells makeMove is called with: the first env.width empty ones, the first
\* taken one, and cells off the board
CellsTried(g) ==
  {<<EmptyCells(g)[k].row, EmptyCells(g)[k].col>> :
     k \in 1 .. Min({Len(EmptyCells(g)), env.width})}
    \cup {<<OccupiedCells(g)[k].row, OccupiedCells(g)[k].col>> :
            k \in 1 .. Min({Len(OccupiedCells(g)), 1})}
    \cup OffBoard

GameInit == InitPure /\ call = None /\ ret = None

\* game.makeMove(row, col)
GameMakeMove ==
  /\ \E c \in CellsTried(game) :
       /\ call' = <<"makeMove", c[1], c[2]>>
       /\ ret' = Some(makeMove(game, c[1], c[2]).ok)
       /\ game' = makeMove(game, c[1], c[2]).game
  /\ UNCHANGED aside

\* game.reset()
GameReset ==
  /\ call' = <<"reset">>
  /\ ret' = None
  /\ game' = reset
  /\ UNCHANGED aside

GameNext == GameMakeMove \/ GameReset

GameSpec == GameInit /\ [][GameNext]_vars

\* ---- checkWinner on any board
\* a cell holds null, X or O
Boards == [Idx -> [Idx -> {Empty} \cup Players]]

BoardInit ==
  /\ config = [models |-> Models, rounds |-> NumRounds,
               maxRetries |-> Max(RetryLimits), backoffMultiplier |-> 2]
  /\ env = [faults |-> 0, slots |-> {}, depth |-> 0, width |-> DeepWidth,
            texts |-> 0, throws |-> 0, logFaults |-> FALSE, attempts |-> 0]
  /\ pc = "start"
  /\ matchups = <<>> /\ totalMatches = 0 /\ completedMatches = 0
  /\ round = 0 /\ mi = 0
  /\ apiRetries = 0 /\ backoffTime = 0 /\ matchCompleted = FALSE
  /\ \E b \in Boards : game = [NewGame EXCEPT !.board = b]
  /\ result = NoResult
  /\ matchFiles = <<>> /\ outcomesFile = None /\ statisticsFile = None
  /\ now = 0
  /\ cause = "none" /\ requests = 0 /\ wrote = 0
  /\ attemptEnds = <<>> /\ attemptIds = <<>> /\ accepted = <<>>
  /\ call = None /\ ret = None

\* game.checkWinner() and game.isGameOver()
CallCheckWinner ==
  /\ ret = None
  /\ call' = <<"checkWinner">>
  /\ ret' = Some([winner |-> checkWinner(game), over |-> isGameOver(game)])
  /\ UNCHANGED program

BoardSpec == BoardInit /\ [][CallCheckWinner]_vars

\* ---- generateMatchups and the head of runTournament
\* ids a configuration may give its models; two entries may carry the same id
ModelIds == {"A", "B", "C"}

\* the models arrays of at most MaxModels entries
ModelLists == UNION {[1 .. n -> ModelIds] : n \in 0 .. MaxModels}

ScheduleInit ==
  /\ config \in [models : ModelLists, rounds : 1 .. NumRounds,
                 maxRetries : RetryLimits, backoffMultiplier : {2}]
  /\ env = [faults |-> 0, slots |-> {}, depth |-> 0, width |-> DeepWidth,
            texts |-> 0, throws |-> 0, logFaults |-> FALSE, attempts |-> 0]
  /\ InitProgram
  /\ call = None /\ ret = None

\* runTournament up to the head of the loop over the rounds
ScheduleSpec == ScheduleInit /\ [][StartTournament]_vars

\* ---- Logger.generateStatistics
\* the outcomes the logs are made of
OutcomeKinds ==
  {[X |-> "A", O |-> "B", winner |-> "X"], [X |-> "B", O |-> "A", winner |-> "X"],
   [X |-> "A", O |-> "B", winner |-> "draw"], [X |-> "B", O |-> "A", winner |-> "invalid"],
   [X |-> "C", O |-> "A", winner |-> "O"]}

\* logs of three models, and of a configuration in which two entries carry the id A
SampleLogs ==
  {<<[X |-> "B", O |-> "C", winner |-> "O"], [X |-> "C", O |-> "A", winner |-> "X"],
     [X |-> "C", O |-> "B", winner |-> "invalid"], [X |-> "A", O |-> "B", winner |-> "O"]>>,
   <<[X |-> "C", O |-> "B", winner |-> "invalid"], [X |-> "A", O |-> "B", winner |-> "X"],
     [X |-> "B", O |-> "A", winner |-> "X"]>>,
   <<[X |-> "A", O |-> "A", winner |-> "X"]>>,
   <<[X |-> "A", O |-> "A", winner |-> "O"], [X |-> "A", O |-> "B", winner |-> "O"]>>,
   <<[X |-> "A", O |-> "A", winner |-> "invalid"], [X |-> "A", O |-> "A", winner |-> "draw"]>>}

\* the k-th outcome of a log was written at time k
OutcomeLogs ==
  {[k \in DOMAIN log |-> Logged(log[k].X, log[k].O, log[k].winner, k)] :
     log \in UNION {[1 .. n -> OutcomeKinds] : n \in 0 .. MaxLog} \cup SampleLogs}

\* the arrays of model ids generateStatistics is called with
StatsModels == {<<"A", "B">>, <<"C", "B", "A">>, <<"A", "B", "A">>}

\* generateStatistics is called on a logger whose outcome file is absent or
\* holds a log; expectedTotalMatches is optional (0 stands for undefined)
StatsInit ==
  /\ config = [models |-> Models, rounds |-> NumRounds,
               maxRetries |-> Max(RetryLimits), backoffMultiplier |-> 2]
  /\ env = [faults |-> 0, slots |-> {}, depth |-> 0, width |-> DeepWidth,
            texts |-> 0, throws |-> 0, logFaults |-> FALSE, attempts |-> 0]
  /\ pc = "start"
  /\ matchups = <<>> /\ totalMatches = 0 /\ completedMatches = 0
  /\ round = 0 /\ mi = 0
  /\ apiRetries = 0 /\ backoffTime = 0 /\ matchCompleted = FALSE
  /\ game = NewGame /\ result = NoResult
  /\ matchFiles = <<>> /\ statisticsFile = None
  /\ outcomesFile \in {None} \cup {Some(log) : log \in OutcomeLogs}
  /\ now = MaxLog + 1
  /\ cause = "none" /\ requests = 0 /\ wrote = 0
  /\ attemptEnds = <<>> /\ attemptIds = <<>> /\ accepted = <<>>
  /\ call \in [models : StatsModels, expectedTotalMatches : {0, 2 * NumRounds}]
  /\ ret = <<>>

\* logger.generateStatistics(call.models, call.expectedTotalMatches), called
\* twice in a row; ret collects what the calls returned
CallGenerateStatistics ==
  /\ Len(ret) < 2
  /\ \E t \in {now, now + 1} :
       /\ statisticsFile' = Some(generateStatistics(outcomesFile, call.models,
                                                    call.expectedTotalMatches, t))
       /\ ret' = Append(ret, generateStatistics(outcomesFile, call.models,
                                                call.expectedTotalMatches, t))
       /\ now' = t
  /\ UNCHANGED <<config, pc, matchups, totalMatches, completedMatches, round, mi,
                 apiRetries, backoffTime, matchCompleted, game, result, matchFiles,
                 outcomesFile, env, cause, requests, wrote, attemptEnds, attemptIds,
                 accepted, call>>

StatsSpec == StatsInit /\ [][CallGenerateStatistics]_vars

\* ---- Logger.logOutcome
\* a logger whose outcome file is absent
LogInit ==
  /\ config = [models |-> Models, rounds |-> NumRounds,
               maxRetries |-> Max(RetryLimits), backoffMultiplier |-> 2]
  /\ env = [faults |-> 0, slots |-> {}, depth |-> 0, width |-> DeepWidth,
            texts |-> 0, throws |-> 0, logFaults |-> FALSE, attempts |-> 0]
  /\ InitProgram
  /\ call = None /\ ret = None

\* logger.logOutcome(o): the file is read, o is pushed, the array is written;
\* call keeps the argument and how the read ended; at most MaxLog calls
CallLogOutcome ==
  /\ now < MaxLog
  /\ \E k \in OutcomeKinds :
       /\ call' = Some([outcome |-> Logged(k.X, k.O, k.winner, now), read |-> "ok"])
       /\ outcomesFile' = logOutcome(outcomesFile, Logged(k.X, k.O, k.winner, now))
  /\ now' = now + 1
  /\ UNCHANGED <<config, pc, matchups, totalMatches, completedMatches, round, mi,
                 apiRetries, backoffTime, matchCompleted, game, result, matchFiles,
                 statisticsFile, env, cause, requests, wrote, attemptEnds, attemptIds,
                 accepted, ret>>

\* logger.logOutcome(o) on a file that is there but cannot be read: fs.readFile
\* rejects, the catch block swallows the error, and the write succeeds
CallLogOutcomeUnread ==
  /\ outcomesFile # None
  /\ now < MaxLog
  /\ \E k \in OutcomeKinds :
       /\ call' = Some([outcome |-> Logged(k.X, k.O, k.winner, now), read |-> "error"])
       /\ outcomesFile' = logOutcomeUnread(outcomesFile, Logged(k.X, k.O, k.winner, now))
  /\ now' = now + 1
  /\ UNCHANGED <<config, pc, matchups, totalMatches, completedMatches, round, mi,
                 apiRetries, backoffTime, matchCompleted, game, result, matchFiles,
                 statisticsFile, env, cause, requests, wrote, attemptEnds, attemptIds,
                 accepted, ret>>

\* logger.loadOutcomes()
CallLoadOutcomes ==
  /\ ret' = Some(loadOutcomes(outcomesFile))
  /\ UNCHANGED <<config, pc, matchups, totalMatches, completedMatches, round, mi,
                 apiRetries, backoffTime, matchCompleted, game, result, matchFiles,
                 outcomesFile, statisticsFile, now, env, cause, requests, wrote,
                 attemptEnds, attemptIds, accepted, call>>

LogNext == CallLogOutcome \/ CallLogOutcomeUnread \/ CallLoadOutcomes

LogSpec == LogInit /\ [][LogNext]_vars

\* ------------------------------------------------------------ properties
\* the schedule of the tournament: round-major, then the order of the matchups
SlotsPerRound == Len(config.models) * (Len(config.models) - 1)

Schedule ==
  [k \in 1 .. (SlotsPerRound * config.rounds) |->
     [round |-> ((k - 1) \div SlotsPerRound) + 1, index |-> ((k - 1) % SlotsPerRound) + 1]]

\* an attempt of the current pairing is under way or being decided
InPairing ==
  pc \in {"while", "turn", "finish", "logMatch", "logOutcome", "decide", "catch", "wait", "sleep"}

\* playMatch has returned and runTournament holds its result
Returned == pc \in {"logMatch", "logOutcome", "decide"}

\* C1: matches are accepted one at a time in schedule order (round-major, then
\* matchup order), every accepted match is valid and is the last attempt of
\* its pairing, the attempt under way always belongs to the first slot not yet
\* accepted, and when statistics generation is reached every (round, matchup)
\* slot has exactly one accepted match: completedMatches = matchups x rounds.
C1_OneValidMatchPerSlot ==
  /\ matchups \in {<<>>, generateMatchups(config.models)}
  /\ completedMatches = Len(accepted)
  /\ Len(accepted) <= Len(Schedule)
  /\ \A k \in DOMAIN accepted :
       /\ accepted[k].round = Schedule[k].round
       /\ accepted[k].index = Schedule[k].index
       /\ accepted[k].X = matchups[accepted[k].index].xModel
       /\ accepted[k].O = matchups[accepted[k].index].oModel
       /\ accepted[k].winner \in {"X", "O", "draw"}
  /\ InPairing =>
       /\ Len(accepted) < Len(Schedule)
       /\ round = Schedule[Len(accepted) + 1].round
       /\ mi = Schedule[Len(accepted) + 1].index
  /\ \A i \in DOMAIN attemptEnds :
       attemptEnds[i].kind = "valid" => i = Len(attemptEnds) /\ matchCompleted /\ ~InPairing
  /\ pc \in {"stats", "done"} =>
       /\ Len(accepted) = Len(Schedule)
       /\ completedMatches = Len(matchups) * config.rounds
       /\ completedMatches = totalMatches

\* C1 witness: the statistics are generated after a tournament in which some
\* pairing needed more than one attempt
C1_Witness ==
  /\ pc = "done"
  /\ Len(accepted) = NumSlots
  /\ Len(attemptIds) > NumSlots

\* C2: an attempt that ended by a transport failure (api_error), or by an
\* exception that reached runTournament, raises the retry counter by one and
\* goes to the backoff sleep (through the operator wait when the limit is
\* reached); it is never followed at once by the next attempt.
C2_FailureBacksOff ==
  [][((pc = "decide" /\ cause = "api_error") \/ pc = "catch")
       => (apiRetries' = apiRetries + 1 /\ pc' \in {"wait", "sleep"})]_vars

C4_OperatorWaitAtLimit ==
  /\ (/\ config.maxRetries = 3
      /\ Len(attemptEnds) >= 3
      /\ \A i \in 1 .. 3 : attemptEnds[i].kind = "api_error"
      /\ Len(attemptEnds) > 3 \/ pc \notin {"wait", "sleep"})
       => /\ ~attemptEnds[1].waited /\ ~attemptEnds[2].waited /\ attemptEnds[3].waited
          /\ (Len(attemptEnds) = 3 /\ pc = "while") => apiRetries = 0
  /\ pc = "wait" => apiRetries = config.maxRetries

\* C5: every attempt that is followed by a retry decision or by another
\* attempt has had both its records written: the match record, then the outcome.
C5_BothRecordsWritten ==
  \A i \in DOMAIN attemptEnds : attemptEnds[i].wrote = 2

\* C6: no two attempts of a tournament run get the same matchId.
C6_UniqueMatchIds ==
  \A i \in DOMAIN attemptIds : \A j \in DOMAIN attemptIds :
     i # j => attemptIds[i] # attemptIds[j]

\* C7: once a turn produced a textual invalid classification the match is over:
\* no further move request can be made (the turn loop has been left and the
\* invalid request was the last, every earlier one having placed a mark), the
\* winner stays invalid, the invalid reason names the side and the
\* classification, and exactly one invalid-move diagnostic is recorded.
C7_InvalidOutputEndsMatch ==
  cause = "textual" =>
    /\ pc # "turn"
    /\ requests = Len(game.moves) + 1
    /\ requests = Len(result.conversations)
    /\ result.winner = "invalid" /\ result.winnerModel = None
    /\ Len(result.invalidMoves) = 1
    /\ result.invalidMoves[1].player = game.currentPlayer
    /\ result.invalidMoves[1].type \in Range(InvalidMoveTypes)
    /\ result.invalidMoves[1].details # <<>>
    /\ Len(result.invalidReason) >= 3
    /\ result.invalidReason[1] = result.invalidMoves[1].player
    /\ result.invalidReason[3] = result.invalidMoves[1].type

\* C7 witness: the second player answers off the board on the fourth request
C7_Witness ==
  /\ cause = "textual" /\ pc = "decide"
  /\ requests = 4
  /\ result.invalidMoves[1].type = "outside_board"
  /\ result.invalidMoves[1].player = "O"

\* C8: once the API call of a turn failed the match is over and invalid: the
\* turn loop has been left, the invalid reason starts with the side and
\* carries the api_error tag, no invalid-move diagnostic is recorded, and the
\* failed request placed no mark.
C8_TransportFailureEndsMatch ==
  cause = "api_error" =>
    /\ pc # "turn"
    /\ requests = Len(game.moves) + 1
    /\ result.invalidMoves = <<>>
    /\ result.winner = "invalid"
    /\ Len(result.invalidReason) >= 3
    /\ result.invalidReason[1] = game.currentPlayer
    /\ result.invalidReason[3] = "api_error"
    /\ Returned => result.moves = game.moves

\* C8 witness: the API call of the third request times out
C8_Witness ==
  /\ cause = "api_error" /\ pc = "decide"
  /\ requests = 3 /\ Len(result.moves) = 2
  /\ Includes(result.invalidReason, "(timeout)")

\* C9: a match returned without invalid reason is a finished game whose winner
\* is the game's result, with winnerModel present exactly for X and O and
\* equal to the model on that side; a match returned with an invalid reason
\* has winner invalid and no winnerModel; the outcome, as projected and as
\* stored in the log, has winner invalid exactly when it has an invalid reason.
C9_WinnerFields ==
  /\ Returned =>
       /\ result.invalidReason = <<>> =>
            /\ isGameOver(game)
            /\ result.winner = checkWinner(game)
            /\ result.winner \in {"X", "O", "draw"}
            /\ result.winnerModel # None <=> result.winner \in {"X", "O"}
            /\ result.winner = "X" => result.winnerModel = Some(matchups[mi].xModel)
            /\ result.winner = "O" => result.winnerModel = Some(matchups[mi].oModel)
       /\ result.invalidReason # <<>> =>
            result.winner = "invalid" /\ result.winnerModel = None
       /\ Outcome(result).winner = "invalid" <=> result.invalidReason # <<>>
  /\ \A o \in Range(loadOutcomes(outcomesFile)) :
       /\ o.winner = "invalid" <=> o.invalidReason # <<>>
       /\ o.winner = "invalid" => o.winnerModel = None

\* C9 witness: O wins a match and its model is recorded as the winner
C9_Witness ==
  /\ pc = "decide"
  /\ result.invalidReason = <<>>
  /\ result.winner = "O" /\ result.winnerModel = Some(matchups[mi].oModel)

\* C10: while a match runs and when it is returned, its record holds one
\* conversation for every move request made in the match.
C10_ConversationPerRequest ==
  pc \in {"turn", "finish", "logMatch", "logOutcome", "decide"}
    => Len(result.conversations) = requests

\* ---- the three results of AIPlayer.makeMove
\* return { move, conversation, invalidReason } with a move on the board
IsValidMoveResult(r) ==
  /\ r.move # None
  /\ r.move[1].row \in 0 .. 2 /\ r.move[1].col \in 0 .. 2
  /\ r.invalidReason = None
  /\ r.conversation.error = None

\* return { move: null, conversation, invalidReason }
IsTextualInvalid(r) ==
  /\ r.move = None
  /\ r.invalidReason # None
  /\ r.invalidReason[1] \in Range(InvalidMoveTypes)
  /\ r.conversation.error = None

\* return { move: null, conversation } out of the catch block
IsTransportFailure(r) ==
  /\ r.move = None
  /\ r.invalidReason = None
  /\ r.conversation.error # None
  /\ r.conversation.response = None

DistinctIds(models) == \A i, j \in DOMAIN models : i # j => models[i] # models[j]

\* the positions of the schedule where a plays X against b
PairingsOf(a, b) == {k \in DOMAIN matchups : matchups[k].xModel = a /\ matchups[k].oModel = b}

\* the ordered pairs of different entries of the models array, a first and b second
EntryPairs(models, a, b) ==
  {p \in (DOMAIN models) \X (DOMAIN models) :
     p[1] # p[2] /\ models[p[1]] = a /\ models[p[2]] = b}

\* C12: generateMatchups yields exactly the ordered pairs of distinct configured
\* models: n x (n-1) matchups for n models, one matchup for every ordered pair of
\* different entries, so that every unordered pair of models appears exactly
\* twice with the roles swapped and no model meets itself; the expected number
\* of matches is the number of matchups times the number of rounds.
C12_OrderedPairsOfDistinctModels ==
  pc = "for" =>
    /\ Len(matchups) = Len(config.models) * (Len(config.models) - 1)
    /\ \A k \in DOMAIN matchups :
         {matchups[k].xModel, matchups[k].oModel} \subseteq Range(config.models)
    /\ \A a, b \in Range(config.models) :
         Cardinality(PairingsOf(a, b)) = Cardinality(EntryPairs(config.models, a, b))
    /\ DistinctIds(config.models) =>
         /\ \A k \in DOMAIN matchups : matchups[k].xModel # matchups[k].oModel
         /\ \A a, b \in Range(config.models) :
              a # b => /\ Cardinality(PairingsOf(a, b)) = 1
                       /\ Cardinality(PairingsOf(b, a)) = 1
                       /\ Cardinality(PairingsOf(a, b) \cup PairingsOf(b, a)) = 2
    /\ totalMatches = Len(matchups) * config.rounds

\* three different models and two rounds: six matchups, twelve matches expected
C12_Witness ==
  /\ pc = "for"
  /\ Len(config.models) = 3 /\ DistinctIds(config.models)
  /\ config.rounds = 2
  /\ Len(matchups) = 6 /\ totalMatches = 12

\* the pairing the loops stand at
Pairing == <<round, mi>>

\* the loops leave a pairing after an accepted match only (or at the end of a round)
LeavesPairing ==
  Pairing' # Pairing =>
    \/ pc = "start"
    \/ pc = "decide" /\ IsAccepted(result)
    \/ pc = "for" /\ mi > Len(matchups)

\* the operator's acknowledgement resets the counter and stays in the pairing
AcknowledgedContinues ==
  (pc = "wait" /\ pc' # "wait") =>
    /\ apiRetries' = 0
    /\ Pairing' = Pairing
    /\ ~matchCompleted'
    /\ pc' = "sleep"

\* the run is over: a match accepted for every slot of the schedule, the statistics written
RunComplete ==
  /\ pc = "done"
  /\ Len(accepted) = Len(Schedule)
  /\ \A k \in DOMAIN accepted :
       accepted[k].round = Schedule[k].round /\ accepted[k].index = Schedule[k].index
  /\ statisticsFile # None

RetriesAfterInvalid ==
  {i \in DOMAIN attemptEnds :
     /\ attemptEnds[i].kind \in {"textual", "api_error", "exception"}
     /\ i < Len(attemptEnds) \/ pc \in {"turn", "finish", "logMatch", "logOutcome", "decide"}}

\* C14: for one scheduled pairing, the number of retries after invalid matches
\* does not exceed the configured maxRetries.
C14_RetriesWithinMaxRetries == Cardinality(RetriesAfterInvalid) <= config.maxRetries

\* the cells of the board that hold a marker
Occupied(g) == {c \in Idx \X Idx : g.board[c[1]][c[2]] # Empty}

\* the player to move after k moves, X moving first
TurnAfter(k) == IF k % 2 = 0 THEN "X" ELSE "O"

\* what game.makeMove(row, col) would answer and leave behind in the current state
Tried(c) == makeMove(game, c[1], c[2])

\* C15: getCurrentPlayer() after k successful moves on a fresh game is X when k
\* is even and O when k is odd; the turn is a function of the parity of the
\* move count in every reachable state, after a reset and after a rejected
\* move too, and whatever makeMove is called with next.
C15_TurnFollowsParity ==
  /\ game.currentPlayer = TurnAfter(Len(game.moves))
  /\ game.currentPlayer = TurnAfter(Cardinality(Occupied(game)))
  /\ (call # None /\ call[1] = "reset") => game.currentPlayer = "X" /\ game.moves = <<>>
  /\ \A c \in Coordinates \X Coordinates :
       Tried(c).game.currentPlayer =
         TurnAfter(Len(game.moves) + (IF Tried(c).ok THEN 1 ELSE 0))

\* three moves were made and a fourth was rejected: it is still O's turn
C15_Witness ==
  /\ call # None /\ call[1] = "makeMove" /\ ret = Some(FALSE)
  /\ Len(game.moves) = 3
  /\ game.currentPlayer = "O"

\* the cell is off the board or taken
OffOrTaken(g, c) == c[1] \notin Idx \/ c[2] \notin Idx \/ g.board[c[1]][c[2]] # Empty

\* C16: makeMove(row, col) on an occupied cell or with a coordinate outside
\* 0..2 returns false and leaves the board, the recorded moves and the current
\* player unchanged; it returns true only when the cell is in range and empty.
C16_RejectedMoveChangesNothing ==
  /\ \A c \in Coordinates \X Coordinates :
       /\ OffOrTaken(game, c) =>
            /\ ~Tried(c).ok
            /\ Tried(c).game.board = game.board
            /\ Tried(c).game.moves = game.moves
            /\ Tried(c).game.currentPlayer = game.currentPlayer
       /\ Tried(c).ok => ~OffOrTaken(game, c)
  /\ (call # None /\ call[1] = "makeMove" /\ ret = Some(TRUE)) =>
       /\ <<call[2], call[3]>> \in Idx \X Idx
       /\ game.moves # <<>>
       /\ game.moves[Len(game.moves)].row = call[2]
       /\ game.moves[Len(game.moves)].col = call[3]

\* a move to a taken cell of the board was rejected
C16_Witness ==
  /\ call # None /\ call[1] = "makeMove" /\ ret = Some(FALSE)
  /\ <<call[2], call[3]>> \in Occupied(game)

\* C17: in every reachable state of TicTacToeGame the number of recorded moves
\* equals the number of occupied cells and each recorded move (player, row,
\* col) matches the marker in its cell; a successful makeMove changes exactly
\* the targeted cell, to the marker of the player whose turn it was, appends
\* exactly one move and flips the turn.
C17_MovesMatchBoard ==
  /\ Len(game.moves) = Cardinality(Occupied(game))
  /\ \A i \in DOMAIN game.moves :
       /\ <<game.moves[i].row, game.moves[i].col>> \in Occupied(game)
       /\ game.board[game.moves[i].row][game.moves[i].col] = game.moves[i].player
  /\ \A c \in Coordinates \X Coordinates :
       Tried(c).ok =>
         /\ \A d \in Idx \X Idx :
              Tried(c).game.board[d[1]][d[2]] =
                IF d = c THEN game.currentPlayer ELSE game.board[d[1]][d[2]]
         /\ Tried(c).game.moves =
              Append(game.moves, [player |-> game.currentPlayer, row |-> c[1], col |-> c[2]])
         /\ Tried(c).game.currentPlayer \in Players \ {game.currentPlayer}

\* the ninth move was accepted: nine recorded moves on a full board
C17_Witness ==
  /\ call # None /\ call[1] = "makeMove" /\ ret = Some(TRUE)
  /\ Len(game.moves) = 9
  /\ Cardinality(Occupied(game)) = 9

\* the three rows, the three columns and the two diagonals
Lines ==
  {{<<r, c>> : c \in Idx} : r \in Idx}
    \cup {{<<r, c>> : r \in Idx} : c \in Idx}
    \cup {{<<i, i>> : i \in Idx}, {<<i, BoardSize - 1 - i>> : i \in Idx}}

\* player p holds three in a line on board b
Owns(b, p) == \E L \in Lines : \A c \in L : b[c[1]][c[2]] = p

IsFull(b) == \A r, c \in Idx : b[r][c] # Empty

\* C18: on every board checkWinner() returns a player if and only if some row,
\* column or diagonal holds three equal non-empty markers, and the player it
\* returns owns such a line; it returns draw if and only if all nine cells are
\* filled and there is no such line; otherwise it returns null; isGameOver()
\* is true exactly when checkWinner() is not null.
C18_WinnerIffLine ==
  ret # None =>
    /\ ret[1].winner \in Players <=> \E p \in Players : Owns(game.board, p)
    /\ ret[1].winner \in Players => Owns(game.board, ret[1].winner)
    /\ ret[1].winner = "draw" <=>
         (IsFull(game.board) /\ ~\E p \in Players : Owns(game.board, p))
    /\ ret[1].winner = Empty <=>
         (~IsFull(game.board) /\ ~\E p \in Players : Owns(game.board, p))
    /\ ret[1].winner \in Players \cup {"draw", Empty}
    /\ ret[1].over <=> ret[1].winner # Empty

\* a board whose only line is the diagonal from the top right, held by O
C18_Witness ==
  /\ ret # None
  /\ ret[1].winner = "O" /\ ret[1].over
  /\ \A L \in Lines :
       (\A c \in L : game.board[c[1]][c[2]] = "O") <=> L = {<<0, 2>>, <<1, 1>>, <<2, 0>>}
  /\ ~Owns(game.board, "X")

\* the reply of the call
Reply == call.text

\* the classification the call reported, None for a move
Reported == ret[1].invalidReason

\* what the patterns captured in the last line of the reply: <<>> or two numerals
Captured == FirstMatch(1, LastLine(Reply))

\* C19: parseMove checks the two captured integers in the order numeric
\* validity, negativity, upper bound: if either is negative the result is
\* negative_coordinates even when the other is greater than 2 ("-5,9" and "-1,2"
\* give negative_coordinates), otherwise if either is greater than 2 the result
\* is outside_board ("3,0"), otherwise it is the move (row, col); one
\* classification is reported.
C19_ChecksInOrder ==
  (ret # None /\ call.kind = "reply" /\ Trim(Reply) # <<>> /\ Captured # <<>>) =>
    /\ (parseInt(Captured[1]) < 0 \/ parseInt(Captured[2]) < 0) =>
         ret[1].move = None /\ Reported = <<"negative_coordinates">>
    /\ (parseInt(Captured[1]) >= 0 /\ parseInt(Captured[2]) >= 0
          /\ (parseInt(Captured[1]) > 2 \/ parseInt(Captured[2]) > 2)) =>
         ret[1].move = None /\ Reported = <<"outside_board">>
    /\ (parseInt(Captured[1]) \in 0 .. 2 /\ parseInt(Captured[2]) \in 0 .. 2) =>
         /\ ret[1].move = Some([row |-> parseInt(Captured[1]), col |-> parseInt(Captured[2])])
         /\ Reported = None
    /\ Reply \in {<<"-", "5", ",", "9">>, <<"-", "1", ",", "2">>} =>
         Reported = <<"negative_coordinates">>
    /\ Reply = <<"3", ",", "0">> => Reported = <<"outside_board">>
    /\ Len(Reported) <= 1

\* "-5,9": one value negative, the other above 2, reported as negative_coordinates
C19_Witness ==
  /\ ret # None /\ call.kind = "reply"
  /\ Reply = <<"-", "5", ",", "9">>
  /\ parseInt(Captured[1]) = -5 /\ parseInt(Captured[2]) = 9
  /\ Reported = <<"negative_coordinates">>

\* the last character of t that is not whitespace (t is not blank)
LastInk(t) == Max({i \in DOMAIN t : t[i] \notin Whitespace})

\* where the line holding position e starts
LineStart(t, e) == Max({0} \cup {i \in 1 .. e : t[i] = "\n"}) + 1

\* the last line of t that is not blank, without the whitespace around it
LastNonBlankLine(t) == Trim(SubSeq(t, LineStart(t, LastInk(t)), LastInk(t)))

\* what makeMove yields for the reply text
MoveFor(text) == AIMakeMove("X", game, [kind |-> "reply", text |-> text])

\* C20: an empty or whitespace-only reply is classified blank; of any other
\* reply only the last non-blank line is parsed, coordinates on earlier lines
\* are ignored ("I'll play (1,2)" followed by a last line "1,2" gives the move
\* (1,2)); a non-empty reply whose last line matches no coordinate pattern is
\* classified invalid_syntax, never blank ("hello" gives invalid_syntax).
C20_BlankAndLastLine ==
  (ret # None /\ call.kind = "reply") =>
    /\ Trim(Reply) = <<>> => ret[1].move = None /\ Reported = <<"blank">>
    /\ Trim(Reply) # <<>> =>
         /\ Reported # <<"blank">>
         /\ ret[1].move = MoveFor(LastNonBlankLine(Reply)).move
         /\ Reported = MoveFor(LastNonBlankLine(Reply)).invalidReason
         /\ FirstMatch(1, LastNonBlankLine(Reply)) = <<>> =>
              ret[1].move = None /\ Reported = <<"invalid_syntax">>
    /\ Reply = <<"h", "e", "l", "l", "o">> => Reported = <<"invalid_syntax">>
    /\ Reply = <<"1", ",", "1", "\n", "x">> => Reported = <<"invalid_syntax">>
    /\ Reply = <<"(", "0", ",", "1", ")", "\n", "\n", "2", " ", "2", " ", "\n">> =>
         ret[1].move = Some([row |-> 2, col |-> 2])

\* "I'll play (1,2)" and a last line "1,2": the move (1,2)
C20_Witness ==
  /\ ret # None /\ call.kind = "reply"
  /\ Len(Reply) = 19 /\ Reply[16] = "\n"
  /\ LastNonBlankLine(Reply) = <<"1", ",", "2">>
  /\ ret[1].move = Some([row |-> 1, col |-> 2])

\* ---- the statistics
\* the outcome log on disk
Log == loadOutcomes(outcomesFile)

\* the number of outcomes of a log that are invalid, or that are not
Invalids(log) == Cardinality({k \in DOMAIN log : log[k].winner = "invalid"})
Valids(log) == Cardinality({k \in DOMAIN log : log[k].winner # "invalid"})

Stats == ret[Len(ret)]

\* the models the call knows
Known == Range(call.models)

\* the record of a known model in the statistics
StatsFor(id) == CHOOSE st \in Range(Stats.models) : st.modelId = id

\* the number of outcomes of the log in which a and b played each other
Played(a, b) ==
  Cardinality({k \in DOMAIN Log : {Log[k].X, Log[k].O} = {a, b}})

\* C22: after generateStatistics, for known models A # B: A has a record
\* against B exactly when the log holds a match between them; its wins,
\* losses, draws and invalid counts add up to the number of those matches; and
\* B's record against A mirrors it (wins against losses, losses against wins,
\* draws and invalid equal).
C22_HeadToHead ==
  ret # <<>> =>
    \A a \in Known : \A b \in Known \ {a} :
      /\ b \in DOMAIN StatsFor(a).opponents <=> Played(a, b) > 0
      /\ b \in DOMAIN StatsFor(a).opponents =>
           /\ StatsFor(a).opponents[b].wins + StatsFor(a).opponents[b].losses
                + StatsFor(a).opponents[b].draws + StatsFor(a).opponents[b].invalid
                = Played(a, b)
           /\ a \in DOMAIN StatsFor(b).opponents
           /\ StatsFor(a).opponents[b].wins = StatsFor(b).opponents[a].losses
           /\ StatsFor(a).opponents[b].losses = StatsFor(b).opponents[a].wins
           /\ StatsFor(a).opponents[b].draws = StatsFor(b).opponents[a].draws
           /\ StatsFor(a).opponents[b].invalid = StatsFor(b).opponents[a].invalid

\* C22 witness: three known models; A beat C as O, lost to B as X, and drew
\* or lost the other matches, an invalid match among them
C22_Witness ==
  /\ ret # <<>>
  /\ Known = {"A", "B", "C"}
  /\ Played("A", "B") = 3 /\ Played("A", "C") = 1
  /\ StatsFor("A").opponents["C"].wins = 1
  /\ StatsFor("C").opponents["A"].losses = 1
  /\ StatsFor("A").opponents["B"].invalid = 1
  /\ StatsFor("B").opponents["A"].wins = 1

\* C23: for every model of the statistics, winRate is wins divided by
\* totalMatches - invalidGames when that is positive and 0 when the model
\* played no valid game; the divisor is never 0 and the rate lies between 0
\* and 1.
C23_WinRate ==
  ret # <<>> =>
    \A k \in DOMAIN Stats.models :
      /\ Stats.models[k].winRate.den > 0
      /\ Stats.models[k].totalMatches - Stats.models[k].invalidGames > 0 =>
           Stats.models[k].winRate.num
               * (Stats.models[k].totalMatches - Stats.models[k].invalidGames)
             = Stats.models[k].wins * Stats.models[k].winRate.den
      /\ Stats.models[k].totalMatches - Stats.models[k].invalidGames <= 0 =>
           Stats.models[k].winRate.num = 0
      /\ 0 <= Stats.models[k].winRate.num
      /\ Stats.models[k].winRate.num <= Stats.models[k].winRate.den

\* C23 witness: one model played only invalid matches and has rate 0, another
\* won one of its two valid matches and played an invalid one besides
C23_Witness ==
  /\ ret # <<>>
  /\ \E k \in DOMAIN Stats.models :
       /\ Stats.models[k].totalMatches > 0
       /\ Stats.models[k].totalMatches = Stats.models[k].invalidGames
       /\ Stats.models[k].winRate = [num |-> 0, den |-> 1]
  /\ \E k \in DOMAIN Stats.models :
       /\ Stats.models[k].totalMatches = 3 /\ Stats.models[k].invalidGames = 1
       /\ Stats.models[k].wins = 1
       /\ Stats.models[k].winRate = [num |-> 1, den |-> 2]

\* C24: the rankings list every known model once; they are in descending
\* order of win rate and, at equal win rate, of wins; each entry carries the
\* rate and wins of its model, and its rank is its position, so the ranks are
\* 1 .. n with none shared, also by models tied on rate and wins.
C24_Rankings ==
  ret # <<>> =>
    /\ Len(Stats.rankings) = Cardinality(Known)
    /\ {Stats.rankings[k].modelId : k \in DOMAIN Stats.rankings} = Known
    /\ \A k \in DOMAIN Stats.rankings :
         /\ Stats.rankings[k].rank = k
         /\ Stats.rankings[k].winRate = StatsFor(Stats.rankings[k].modelId).winRate
         /\ Stats.rankings[k].totalWins = StatsFor(Stats.rankings[k].modelId).wins
    /\ \A k \in 1 .. (Len(Stats.rankings) - 1) :
         \/ RatioDiff(Stats.rankings[k].winRate, Stats.rankings[k + 1].winRate) > 0
         \/ /\ RatioDiff(Stats.rankings[k].winRate, Stats.rankings[k + 1].winRate) = 0
            /\ Stats.rankings[k].totalWins >= Stats.rankings[k + 1].totalWins

\* C24 witness: three models, the one given last ranked first, the other two
\* tied on win rate and wins and ranked 2 and 3
C24_Witness ==
  /\ ret # <<>>
  /\ call.models = <<"C", "B", "A">>
  /\ Len(Stats.rankings) = 3
  /\ Stats.rankings[1].modelId = "A"
  /\ Stats.rankings[2].winRate = Stats.rankings[3].winRate
  /\ Stats.rankings[2].totalWins = Stats.rankings[3].totalWins
  /\ Stats.rankings[2].rank = 2 /\ Stats.rankings[3].rank = 3

\* the number of outcomes of the log won by a against b
WonBy(a, b) ==
  Cardinality({k \in DOMAIN Log :
                 \/ Log[k].X = a /\ Log[k].O = b /\ Log[k].winner = "X"
                 \/ Log[k].X = b /\ Log[k].O = a /\ Log[k].winner = "O"})

\* the log of the example: four matches between A and B, A won two, B won
\* one, one was drawn, none is invalid
ExampleLog ==
  /\ ret # <<>>
  /\ call.models = <<"A", "B">>
  /\ Len(Log) = 4 /\ Played("A", "B") = 4
  /\ WonBy("A", "B") = 2 /\ WonBy("B", "A") = 1
  /\ Cardinality({k \in DOMAIN Log : Log[k].winner = "draw"}) = 1

\* C25 as stated: on the log of the example generateStatistics reports the
\* win rate 2/3 for A and ranks A above B.
C25_ExampleRateTwoThirds ==
  ExampleLog =>
    /\ StatsFor("A").winRate = [num |-> 2, den |-> 3]
    /\ Stats.rankings[1].modelId = "A" /\ Stats.rankings[2].modelId = "B"

\* C25 amended: on the log of the example A has played four valid matches and
\* won two, so generateStatistics reports the win rate 2/4 = 1/2 for A (1/4
\* for B) and ranks A above B.
C25_ExampleRateOneHalf ==
  ExampleLog =>
    /\ StatsFor("A").totalMatches = 4 /\ StatsFor("A").invalidGames = 0
    /\ StatsFor("A").wins = 2 /\ StatsFor("A").draws = 1 /\ StatsFor("A").losses = 1
    /\ StatsFor("A").winRate = [num |-> 1, den |-> 2]
    /\ StatsFor("B").winRate = [num |-> 1, den |-> 4]
    /\ Stats.rankings[1].modelId = "A" /\ Stats.rankings[2].modelId = "B"
    /\ Stats.rankings[1].rank = 1 /\ Stats.rankings[2].rank = 2

\* C25 witness: the statistics of the log of the example, B's win coming first
C25_Witness ==
  /\ ExampleLog
  /\ Log[1].X = "B" /\ Log[1].winner = "X"
  /\ Stats.rankings[1].winRate = [num |-> 1, den |-> 2]

\* C26: generateStatistics called twice on the same outcome log with the same
\* models returns the same statistics, equal in every field, and what it
\* wrote to the statistics file is what it returned.
C26_RecomputedEqual ==
  Len(ret) = 2 => ret[1] = ret[2] /\ statisticsFile = Some(ret[2])

\* ---- moves the game rejects
\* makeMove returned in this step: the conversation of the request was pushed
MoveReturned == pc = "turn" /\ Len(result'.conversations) = Len(result.conversations) + 1

\* the reply of that request as the model sent it, <<>> when the call failed
Answered ==
  IF result'.conversations[Len(result'.conversations)].response = None THEN <<>>
  ELSE result'.conversations[Len(result'.conversations)].response[1]

\* the move the parser returned for that reply, <<>> when it returned none
ParsedMove == IF Answered = <<>> THEN None ELSE parseMove(Answered).move

\* an occupied_cell diagnostic was recorded in this step
OccupiedRecorded ==
  /\ Len(result'.invalidMoves) = Len(result.invalidMoves) + 1
  /\ result'.invalidMoves[Len(result'.invalidMoves)].type = "occupied_cell"

\* a list of moves each of which was legal when applied
LegalMoves(moves) ==
  \A k \in DOMAIN moves :
    /\ moves[k].row \in Idx /\ moves[k].col \in Idx
    /\ moves[k].player = IF k % 2 = 1 THEN "X" ELSE "O"
    /\ \A j \in 1 .. (k - 1) : moves[j].row # moves[k].row \/ moves[j].col # moves[k].col

\* C28: in a step of playMatch in which makeMove returned, an occupied_cell
\* diagnostic is recorded exactly when the parser returned a move (which is
\* then on the board) whose cell is taken; in that case the game itself
\* rejected the move, board, turn and move list are as before, the diagnostic
\* names the player and the cell, and the turn loop is left with the match
\* invalid.  Every persisted match record holds only moves that were legal
\* when applied, and when it ends with an occupied_cell diagnostic the
\* rejected move is not among them.
C28_OccupiedCellRejected ==
  [][/\ MoveReturned =>
          \E mv \in {ParsedMove} :
            /\ mv # None => mv[1].row \in Idx /\ mv[1].col \in Idx
            /\ OccupiedRecorded <=> (mv # None /\ game.board[mv[1].row][mv[1].col] # Empty)
            /\ OccupiedRecorded =>
                 /\ ~makeMove(game, mv[1].row, mv[1].col).ok
                 /\ game' = game
                 /\ pc' = "finish" /\ cause' = "textual"
                 /\ result'.invalidMoves[Len(result'.invalidMoves)] =
                      [player |-> game.currentPlayer, type |-> "occupied_cell",
                       details |-> CellDetails(mv[1])]
                 /\ result'.invalidReason =
                      <<game.currentPlayer, ":", "occupied_cell">> \o CellDetails(mv[1])
                 /\ result'.winner = "invalid"
     /\ \A f \in DOMAIN matchFiles' :
          /\ LegalMoves(matchFiles'[f].moves)
          /\ Includes(matchFiles'[f].invalidReason, "occupied_cell") =>
               /\ matchFiles'[f].winner = "invalid"
               /\ Len(matchFiles'[f].moves) = Len(matchFiles'[f].conversations) - 1]_vars

\* C28 witness: the match record of an attempt that ended on a taken cell
\* after two moves has been written
C28_Witness ==
  /\ pc = "logOutcome"
  /\ Len(result.invalidMoves) = 1 /\ result.invalidMoves[1].type = "occupied_cell"
  /\ result.invalidMoves[1].player = "X"
  /\ Len(result.moves) = 2 /\ Len(result.conversations) = 3
  /\ getMatchFileName(result.matchId) \in DOMAIN matchFiles

\* ---- the run without faults
\* the moves of a match in which both players take the first empty cell
FirstCellMoves ==
  <<[player |-> "X", row |-> 0, col |-> 0], [player |-> "O", row |-> 0, col |-> 1],
    [player |-> "X", row |-> 0, col |-> 2], [player |-> "O", row |-> 1, col |-> 0],
    [player |-> "X", row |-> 1, col |-> 1], [player |-> "O", row |-> 1, col |-> 2],
    [player |-> "X", row |-> 2, col |-> 0]>>

\* C27: in a tournament of two models and one round in which every reply is
\* the first empty cell, no attempt has an invalid move or an invalid reason
\* and there are never more than two attempts; every finished match has the
\* same seven moves and is won by X; when the run is over, two matches were
\* accepted, one per pairing, the log holds exactly their two outcomes, each
\* valid and won by the model that played X, and the statistics count two
\* completed and no invalid matches.
C27_FirstCellRun ==
  /\ result.invalidMoves = <<>> /\ result.invalidReason = <<>>
  /\ Len(attemptIds) <= 2 /\ apiRetries = 0
  /\ \A f \in DOMAIN matchFiles :
       /\ [k \in DOMAIN matchFiles[f].moves |->
             [player |-> matchFiles[f].moves[k].player, row |-> matchFiles[f].moves[k].row,
              col |-> matchFiles[f].moves[k].col]] = FirstCellMoves
       /\ matchFiles[f].winner = "X" /\ matchFiles[f].winnerModel = Some(matchFiles[f].X)
  /\ pc = "done" =>
       /\ completedMatches = 2 /\ Len(attemptIds) = 2 /\ Len(accepted) = 2
       /\ Len(Log) = 2
       /\ \A k \in 1 .. 2 :
            /\ accepted[k].winner = "X"
            /\ Log[k].winner = "X" /\ Log[k].winnerModel = Some(Log[k].X)
            /\ Log[k].invalidReason = <<>>
       /\ Log[1].X = config.models[1] /\ Log[1].O = config.models[2]
       /\ Log[2].X = config.models[2] /\ Log[2].O = config.models[1]
       /\ statisticsFile[1].completedMatches = 2 /\ statisticsFile[1].invalidMatches = 0

\* C27 witness: the run is over, two different models each won once as X
C27_Witness ==
  /\ pc = "done"
  /\ env.width = 1 /\ env.faults = 0 /\ config.rounds = 1
  /\ Len(Log) = 2
  /\ Log[1].winnerModel = Some("A") /\ Log[2].winnerModel = Some("B")

\* ---- backoff and the wait for the operator
\* how an attempt ends by a transport or system failure: the API call of a
\* turn failed, makeMove threw, or playMatch or the logger threw
FailureKinds == {"api_error", "exception", "thrown"}

RECURSIVE Pow(_, _)
Pow(b, e) == IF e = 0 THEN 1 ELSE b * Pow(b, e - 1)

\* the number of attempts of the current pairing, up to the i-th, that ended
\* by a failure
FailuresUpTo(i) == Cardinality({j \in 1 .. i : attemptEnds[j].kind \in FailureKinds})

\* the i-th attempt of the current pairing is over and so is what followed it
Settled(i) == i < Len(attemptEnds) \/ pc \notin {"wait", "sleep"}

\* C29: the first attempt of every pairing starts with the delay at 1000 ms,
\* and the attempt that is the k-th failure of its pairing is followed by a
\* sleep of 1000 x backoffMultiplier^(k-1) ms.
C29_ExponentialBackoff ==
  /\ (pc = "while" /\ attemptEnds = <<>>) => backoffTime = BaseBackoff
  /\ \A i \in DOMAIN attemptEnds :
       (attemptEnds[i].kind \in FailureKinds /\ Settled(i)) =>
         attemptEnds[i].delay = BaseBackoff * Pow(config.backoffMultiplier, FailuresUpTo(i) - 1)

\* C30: the wait for the operator is entered only when the last maxRetries
\* attempts of the pairing all ended by a transport or system failure, one
\* after the other; failures with an invalid-move attempt between them do
\* not add up.
C30_WaitAfterConsecutiveFailures ==
  pc = "wait" =>
    /\ Len(attemptEnds) >= config.maxRetries
    /\ \A i \in (Len(attemptEnds) - config.maxRetries + 1) .. Len(attemptEnds) :
         attemptEnds[i].kind \in FailureKinds

\* ---- the order of the patterns
\* the patterns of parseMove that match somewhere in a line, by their place
\* in the array: 1 labeled, 2 parenthesized, 3 comma, 4 space
Matching(line) == {k \in 1 .. 4 : Match(k, line, 1) # <<>>}

\* C31: the result of parseMove is decided by the pattern that comes first
\* in the order labeled, parenthesized, comma, space among those matching the
\* last line: its leftmost match is classified, also when the pair is then
\* rejected and a later pattern would have given a move; with no pattern
\* matching the result is invalid_syntax.
C31_FirstPatternDecides ==
  (ret # None /\ call.kind = "reply" /\ Trim(Reply) # <<>>) =>
    /\ Matching(LastLine(Reply)) = {} =>
         ret[1].move = None /\ Reported = <<"invalid_syntax">>
    /\ Matching(LastLine(Reply)) # {} =>
         /\ ret[1].move
              = ParseCaptures(Match(Min(Matching(LastLine(Reply))), LastLine(Reply), 1)).move
         /\ Reported
              = ParseCaptures(Match(Min(Matching(LastLine(Reply))), LastLine(Reply), 1)).invalidReason
    /\ Reply = <<"(", "1", ",", "2", ")", " ", "r", "o", "w", " ", "0", " ", "c", "o", "l", " ", "1">> =>
         ret[1].move = Some([row |-> 0, col |-> 1])
    /\ Reply = <<"3", ",", "0", " ", "(", "1", ",", "2", ")">> =>
         ret[1].move = Some([row |-> 1, col |-> 2])
    /\ Reply = <<"(", "5", ",", "5", ")", " ", "1", " ", "2">> =>
         ret[1].move = None /\ Reported = <<"outside_board">>
    /\ Reply = <<"1", " ", "2", ",", " ", "0">> =>
         ret[1].move = Some([row |-> 2, col |-> 0])
    /\ Reply = <<"-", "1", " ", "2", " ", "r", "o", "w", " ", "1", " ", "c", "o", "l", " ", "9">> =>
         ret[1].move = None /\ Reported = <<"outside_board">>

\* C31 witness: "(5,5) 1 2": the parenthesized pair is off the board and
\* decides, although the space-separated pair 1 2 names a cell
C31_Witness ==
  /\ ret # None /\ call.kind = "reply"
  /\ Reply = <<"(", "5", ",", "5", ")", " ", "1", " ", "2">>
  /\ Matching(LastLine(Reply)) = {2, 3, 4}
  /\ ParseCaptures(Match(4, LastLine(Reply), 1)).move = Some([row |-> 1, col |-> 2])
  /\ Reported = <<"outside_board">>

\* ---- complete lines in a match
\* the lines of which one player holds all three cells
CompleteLines(b) ==
  {L \in Lines : \E p \in Players : \A c \in L : b[c[1]][c[2]] = p}

\* the original statement of C32: in every state of a match of legal moves at
\* most one of the eight lines is complete.
C32_AtMostOneLine == Cardinality(CompleteLines(game.board)) <= 1

\* C32: in every state of a match of legal moves, played until the first
\* terminal state, all complete lines belong to one player (the last move can
\* complete two lines at once), so checkWinner() returns the owner of every
\* complete line whatever the order of its checks.
C32_OneOwner ==
  /\ ~(Owns(game.board, "X") /\ Owns(game.board, "O"))
  /\ \A L \in CompleteLines(game.board) :
       \A c \in L : game.board[c[1]][c[2]] = checkWinner(game)
  /\ Cardinality(CompleteLines(game.board)) <= 2

\* C32 witness: a finished match in which the ninth move, X in the centre,
\* completed both diagonals
C32_Witness ==
  /\ pc = "logMatch"
  /\ Len(game.moves) = 9
  /\ game.moves[9].row = 1 /\ game.moves[9].col = 1
  /\ CompleteLines(game.board)
       = {{<<i, i>> : i \in Idx}, {<<i, BoardSize - 1 - i>> : i \in Idx}}
  /\ result.winner = "X"

\* ---- the outcome log under logOutcome
\* C33: every logOutcome(o) that returns leaves in the file the log that was
\* there before followed by o, whenever the file was there before; on an
\* absent file it leaves the log of o alone; loadOutcomes() of an absent file
\* is empty.
C33_AppendOnly ==
  [][/\ (call' # call /\ outcomesFile # None) =>
          outcomesFile' = Some(Append(outcomesFile[1], call'[1].outcome))
     /\ (call' # call /\ outcomesFile = None) =>
          outcomesFile' = Some(<<call'[1].outcome>>)
     /\ (ret' # ret /\ outcomesFile = None) => ret' = Some(<<>>)]_vars

\* ---- the loop of playMatch
\* the moves of player p in a list of moves
MovesOf(moves, p) == SelectSeq(moves, LAMBDA m : m.player = p)

\* one iteration of the loop of playMatch: a move request was made
Iteration == requests' = requests + 1

\* the iteration applied the move of the player to a cell that was empty
AppliedMove ==
  /\ Len(game'.moves) = Len(game.moves) + 1
  /\ \E r, c \in Idx :
       /\ game.board[r][c] = Empty
       /\ game'.board[r][c] = game.currentPlayer
       /\ \A r2, c2 \in Idx : <<r2, c2>> # <<r, c>> => game'.board[r2][c2] = game.board[r2][c2]
  /\ pc' = "turn"

\* the iteration left the loop and the game as it was
EndedMatch == game' = game /\ pc' = "finish"

\* C34: playMatch makes at most nine move requests: every iteration of its
\* loop starts from a game that is not over and either applies one legal move
\* or leaves the loop, and the game is not touched outside the loop; in the
\* moves of the game the players alternate from X on, X has made as many
\* moves as O or one more, and at most one player owns a complete line.
C34_NineTurnsAtMost ==
  /\ [](/\ requests <= 9
        /\ \A k \in DOMAIN game.moves : game.moves[k].player = TurnAfter(k - 1)
        /\ Len(MovesOf(game.moves, "X")) - Len(MovesOf(game.moves, "O")) \in {0, 1}
        /\ ~(Owns(game.board, "X") /\ Owns(game.board, "O"))
        /\ pc \in {"logMatch", "logOutcome", "decide"} => result.moves = game.moves)
  /\ [][/\ Iteration =>
             /\ ~isGameOver(game) /\ pc = "turn"
             /\ AppliedMove \/ EndedMatch
        /\ (game' # game /\ ~Iteration) => game' = NewGame]_vars

\* C34 witness: a match of nine requests whose ninth ended the game in a draw
C34_Witness ==
  /\ pc = "logMatch"
  /\ requests = 9 /\ Len(result.moves) = 9
  /\ result.winner = "draw"

\* a match left by its ninth request: eight moves and a bad ninth reply
C34_WitnessBroken ==
  /\ pc = "logMatch"
  /\ requests = 9 /\ Len(result.moves) = 8

\* ---- sums over the model records
\* the sum of a field over the first k records of a list
RECURSIVE SumOf(_, _, _)
SumOf(list, field, k) == IF k = 0 THEN 0 ELSE SumOf(list, field, k - 1) + list[k][field]

\* C35: in the statistics every model record has wins + losses + draws +
\* invalidGames = totalMatches, and the wins of all records add up to the
\* losses of all records (the winners of the log are X, O, draw or invalid).
C35_CountsAddUp ==
  ret # <<>> =>
    /\ \A o \in Range(Log) : o.winner \in {"X", "O", "draw", "invalid"}
    /\ \A k \in DOMAIN Stats.models :
         Stats.models[k].wins + Stats.models[k].losses + Stats.models[k].draws
             + Stats.models[k].invalidGames
           = Stats.models[k].totalMatches
    /\ SumOf(Stats.models, "wins", Len(Stats.models))
         = SumOf(Stats.models, "losses", Len(Stats.models))

\* C35 witness: two known models with a win, a draw and an invalid match
\* between them, and a match skipped because one of its models is not known
C35_Witness ==
  /\ ret # <<>>
  /\ Len(Stats.models) = 2
  /\ \E o \in Range(Log) : o.X \notin Known
  /\ \E o \in Range(Log) : o.winner = "invalid" /\ {o.X, o.O} \subseteq Known
  /\ \E o \in Range(Log) : o.winner = "draw" /\ {o.X, o.O} \subseteq Known
  /\ SumOf(Stats.models, "wins", Len(Stats.models)) = 1
  /\ \E k \in DOMAIN Stats.models :
       /\ Stats.models[k].wins = 1 /\ Stats.models[k].totalMatches = 3
       /\ Stats.models[k].draws = 1 /\ Stats.models[k].invalidGames = 1

\* ---- the tournament-level counts
\* C36: in the final statistics of a run the totalMatches of all model
\* records add up to twice completedMatches + invalidMatches: every outcome
\* of the log is counted once for each of its two models.
C36_EveryOutcomeCounted ==
  pc = "done" =>
    SumOf(statisticsFile[1].models, "totalMatches", Len(statisticsFile[1].models))
      = 2 * (statisticsFile[1].completedMatches + statisticsFile[1].invalidMatches)

\* C37: in the final statistics of a run totalMatches is the number of
\* matchups times the number of rounds, and completedMatches is not greater
\* than totalMatches.
C37_CompletedWithinTotal ==
  pc = "done" =>
    /\ statisticsFile[1].totalMatches = Len(generateMatchups(config.models)) * config.rounds
    /\ statisticsFile[1].completedMatches <= statisticsFile[1].totalMatches
====
